---- MODULE Spec2Model ----
(***************************************************************************)
(* Verification model of CliqueAI's exact maximum-clique engine            *)
(* (CliqueAI/solver/max_clique_solver.py).                                 *)
(*                                                                         *)
(* Bitmasks are modelled as finite sets of vertex ids (Python integers are *)
(* unbounded, so no width is lost): x & y is \cap, x | y is \cup,          *)
(* x & ~y is \, popcount is Cardinality and _lsb_index is the minimum.     *)
(* Wall-clock time is not modelled as a number: every deadline check       *)
(* (_time_ok) may succeed or fail, and "t_remaining > 0" is a free choice. *)
(***************************************************************************)
EXTENDS Integers, Sequences, FiniteSets, TLC

\* ------------------------------------------------------------------ bounds
MaxN == 4
MaxCap == 2
MaxEdgeN == 3
MaxEdgeLen == 2
MaxPermN == 3
MaxNodes == 4
MaxResponses == 3
MaxSearchN == 5
MaxColorN == 4
MaxDegenN == 4
MaxUids == 2
MaxSteps == 3

\* ------------------------------------------------------------ bit helpers
Min(S) == CHOOSE x \in S : \A y \in S : x <= y

Range(s) == {s[k] : k \in 1..Len(s)}

\* _lsb_index(x): index of the lowest set bit
LsbIndex(S) == Min(S)

\* _bits_to_list(bits): the set bits in ascending order
RECURSIVE BitsToList(_)
BitsToList(bits) ==
    IF bits = {} THEN <<>>
    ELSE LET v == LsbIndex(bits) IN <<v>> \o BitsToList(bits \ {v})

\* sorted(xs) for a list of distinct integers
RECURSIVE SortedList(_)
SortedList(xs) ==
    IF Len(xs) = 0 THEN <<>>
    ELSE LET m == Min(Range(xs))
             rest == SelectSeq(xs, LAMBDA x : x # m)
             cnt == Len(xs) - Len(rest)
         IN [k \in 1..cnt |-> m] \o SortedList(rest)

\* lexicographic order on integer lists (Python tuple comparison)
RECURSIVE LexLess(_, _)
LexLess(a, b) ==
    IF Len(a) = 0 THEN Len(b) > 0
    ELSE IF Len(b) = 0 THEN FALSE
    ELSE IF a[1] # b[1] THEN a[1] < b[1]
    ELSE LexLess(Tail(a), Tail(b))

\* sorted({...}) of a set of integer lists
RECURSIVE SortedLists(_)
SortedLists(S) ==
    IF S = {} THEN <<>>
    ELSE LET m == CHOOSE a \in S : \A b \in S : a = b \/ LexLess(a, b)
         IN <<m>> \o SortedLists(S \ {m})

\* ---------------------------------------------------------------- BitGraph
\* mutant: from_edges sets bit v of adj[u] but forgets bit u of adj[v]
RECURSIVE FromEdgesLoopOneWay(_, _, _)
FromEdgesLoopOneWay(nn, es, a) ==
    IF Len(es) = 0 THEN [ok |-> TRUE, adj |-> a]
    ELSE LET u == es[1][1]
             v == es[1][2]
         IN IF u = v THEN FromEdgesLoopOneWay(nn, Tail(es), a)
            ELSE IF ~(0 <= u /\ u < nn /\ 0 <= v /\ v < nn)
                 THEN [ok |-> FALSE, adj |-> a]
            ELSE FromEdgesLoopOneWay(nn, Tail(es),
                     [a EXCEPT ![u] = @ \cup {v}])

\* BitGraph.from_edges: adjacency masks, or the ValueError of an endpoint
\* outside [0,n)
RECURSIVE FromEdgesLoop(_, _, _)
FromEdgesLoop(nn, es, a) ==
    IF Len(es) = 0 THEN [ok |-> TRUE, adj |-> a]
    ELSE LET u == es[1][1]
             v == es[1][2]
         IN IF u = v THEN FromEdgesLoop(nn, Tail(es), a)
            ELSE IF ~(0 <= u /\ u < nn /\ 0 <= v /\ v < nn)
                 THEN [ok |-> FALSE, adj |-> a]
            ELSE FromEdgesLoop(nn, Tail(es),
                     [a EXCEPT ![u] = @ \cup {v}, ![v] = @ \cup {u}])

FromEdges(nn, es) == FromEdgesLoop(nn, es, [x \in 0..(nn - 1) |-> {}])

\* BitGraph.degrees
Degrees(nn, a) == [v \in 0..(nn - 1) |-> Cardinality(a[v])]

\* mutant: the highest id among the vertices of least degree
MinByDegHighestId(remaining, deg) ==
    LET least == {v \in remaining : \A w \in remaining : deg[v] <= deg[w]}
    IN CHOOSE v \in least : \A w \in least : w <= v

\* min(remaining, key=deg): the lowest id among the vertices of least degree
MinByDeg(remaining, deg) ==
    Min({v \in remaining : \A w \in remaining : deg[v] <= deg[w]})

\* one iteration of the removal loop of reorder_by_degeneracy
RemoveMin(a, remaining, deg, order) ==
    LET v == MinByDeg(remaining, deg)
        rem2 == remaining \ {v}
        deg2 == [w \in DOMAIN deg |->
                   IF w \in a[v] /\ w \in rem2 THEN deg[w] - 1 ELSE deg[w]]
    IN [remaining |-> rem2, deg |-> deg2, order |-> Append(order, v)]

\* the removal loop of reorder_by_degeneracy; returns order (= invperm)
RECURSIVE DegeneracyLoop(_, _, _, _)
DegeneracyLoop(a, remaining, deg, order) ==
    IF remaining = {} THEN order
    ELSE LET s == RemoveMin(a, remaining, deg, order)
         IN DegeneracyLoop(a, s.remaining, s.deg, s.order)

\* mutant: the neighbours are not renamed through perm
PermutedGraphUnrenamed(nn, a, invp) ==
    LET inv == [i \in 0..(nn - 1) |-> invp[i + 1]]
        prm == [old \in 0..(nn - 1) |-> CHOOSE i \in 0..(nn - 1) : inv[i] = old]
        newadj == [nv \in 0..(nn - 1) |-> a[inv[nv]] \ {nv}]
    IN [adj |-> newadj, perm |-> prm, invperm |-> inv]

\* perm, new_adj and the returned triple, from the removal order invp
PermutedGraph(nn, a, invp) ==
    LET \* lists are 0-indexed in the source: invperm[i] is invp[i + 1]
        inv == [i \in 0..(nn - 1) |-> invp[i + 1]]
        prm == [old \in 0..(nn - 1) |-> CHOOSE i \in 0..(nn - 1) : inv[i] = old]
        newadj == [nv \in 0..(nn - 1) |->
                     {prm[ou] : ou \in a[inv[nv]]} \ {nv}]
    IN [adj |-> newadj, perm |-> prm, invperm |-> inv]

\* BitGraph.reorder_by_degeneracy: (new adj, perm, invperm)
ReorderByDegeneracy(nn, a) ==
    PermutedGraph(nn, a, DegeneracyLoop(a, 0..(nn - 1), Degrees(nn, a), <<>>))

\* --------------------------------------------------------------- ColorSort
\* mutant: the neighbours of a chosen vertex stay in the colour class
RECURSIVE ColorClassKeepingNeighbours(_, _)
ColorClassKeepingNeighbours(Q, a) ==
    IF Q = {} THEN <<>>
    ELSE LET v == LsbIndex(Q)
         IN <<v>> \o ColorClassKeepingNeighbours(Q \ {v}, a)

\* inner loop of _color_sort: one colour class, lowest set bit first
RECURSIVE ColorClass(_, _)
ColorClass(Q, a) ==
    IF Q = {} THEN <<>>
    ELSE LET v == LsbIndex(Q) IN <<v>> \o ColorClass((Q \ {v}) \ a[v], a)

RECURSIVE ColorSortLoop(_, _, _)
ColorSortLoop(Pwork, color, a) ==
    IF Pwork = {} THEN [order |-> <<>>, colors |-> <<>>]
    ELSE LET c == color + 1
             cls == ColorClass(Pwork, a)
             rest == ColorSortLoop(Pwork \ Range(cls), c, a)
         IN [order |-> cls \o rest.order,
             colors |-> [k \in 1..Len(cls) |-> c] \o rest.colors]

\* mutant: the first colour class gets colour 0
ColorSortFromZero(P, a) == ColorSortLoop(P, -1, a)

\* _color_sort(P, adj)
ColorSort(P, a) == ColorSortLoop(P, 0, a)

\* ---------------------------------------------------------------- GreedyLB
\* the vertex of P maximising |adj[v] & P|, lowest id on ties
GreedyPick(P, a) ==
    LET sc(v) == Cardinality(a[v] \cap P)
    IN Min({v \in P : \A w \in P : sc(w) <= sc(v)})

RECURSIVE GreedyGrow(_, _, _)
GreedyGrow(C, P, a) ==
    IF P = {} THEN C
    ELSE LET bv == GreedyPick(P, a)
         IN GreedyGrow(C \cup {bv}, P \cap a[bv], a)

\* sorted(range(n), key=degree, reverse=True): stable, ties keep ascending id
RECURSIVE DegreeDescOrder(_, _)
DegreeDescOrder(S, a) ==
    IF S = {} THEN <<>>
    ELSE LET v == Min({x \in S : \A y \in S :
                          Cardinality(a[y]) <= Cardinality(a[x])})
         IN <<v>> \o DegreeDescOrder(S \ {v}, a)

RECURSIVE GreedyTrials(_, _, _, _)
GreedyTrials(starts, a, best_sz, best_mask) ==
    IF Len(starts) = 0 THEN [sz |-> best_sz, mask |-> best_mask]
    ELSE LET s == starts[1]
             C == GreedyGrow({s}, a[s], a)
         IN IF Cardinality(C) > best_sz
            THEN GreedyTrials(Tail(starts), a, Cardinality(C), C)
            ELSE GreedyTrials(Tail(starts), a, best_sz, best_mask)

\* _greedy_lb(adj, n): starts = verts[:n], every vertex is a seed
GreedyLb(a, nn) == GreedyTrials(DegreeDescOrder(0..(nn - 1), a), a, 0, {})

\* ------------------------------------------------------------ program state
VARIABLES
    n,              \* argument n of solve_max_clique_all
    edges,          \* argument edges: a list of (u, v) pairs
    reorder,        \* argument reorder
    enum_cap,       \* argument enum_cap: <<>> is None, <<c>> is the integer c
    pc,             \* position in solve_max_clique_all
    adj,            \* G2.adj, the graph the solver searches
    invperm,        \* new -> old vertex ids
    lb_sz,          \* size of the greedy clique
    lb_mask,        \* the greedy clique
    best_size,      \* MaxCliqueSolver.best_size
    best_bits,      \* MaxCliqueSolver.best_bits
    nodes_expanded, \* MaxCliqueSolver.nodes_expanded
    stack,          \* the active calls of _expand_max / _expand_enum
    out,            \* the output list of enumerate_all_max
    complete1,      \* third component of max_size's return value
    hist,           \* what has happened so far in this call (history)
    result,         \* the returned record
    relabel,        \* a relabelling of the vertices applied by the caller
    graph,          \* CliqueScoreCalculator.graph (a LambdaGraph)
    difficulty,     \* CliqueScoreCalculator.difficulty
    responses,      \* CliqueScoreCalculator.responses
    scores,         \* what get_scores returned
    locals,         \* the local variables of a helper called on its own
    self,           \* the fields of the BaseValidatorNeuron object
    calls           \* per uid, the update_scores calls counted (history)

vars == <<n, edges, reorder, enum_cap, pc, adj, invperm, lb_sz, lb_mask,
          best_size, best_bits, nodes_expanded, stack, out, complete1, hist,
          result, relabel, graph, difficulty, responses, scores, locals,
          self, calls>>

\* the state a call of the solver leaves alone
notSolver == <<relabel, graph, difficulty, responses, scores, locals, self,
               calls>>

\* the state a call of the scorer leaves alone
notScorer == <<n, edges, reorder, enum_cap, pc, adj, invperm, lb_sz, lb_mask,
               best_size, best_bits, nodes_expanded, stack, out, complete1,
               hist, result, relabel, locals, self, calls>>

Max2(a, b) == IF a >= b THEN a ELSE b

NoResult == [pending |-> TRUE]

\* no validator object: the validator is not in use
NoValidator ==
    [hotkeys |-> <<>>, ema_scores |-> <<>>, scores |-> <<>>,
     ema_step_count |-> <<>>]

\* no reference graph: the scorer is not in use
NoGraph == [number_of_nodes |-> 0, adjacency_list |-> <<>>]

\* all vertex pairs u < v of an n-vertex graph
Pairs(nn) == {p \in (0..(nn - 1)) \X (0..(nn - 1)) : p[1] < p[2]}

\* a set of pairs as a list, in lexicographic order
RECURSIVE PairList(_)
PairList(S) ==
    IF S = {} THEN <<>>
    ELSE LET m == CHOOSE p \in S : \A q \in S : p = q \/ LexLess(p, q)
         IN <<m>> \o PairList(S \ {m})

\* a frame of _expand_max / _expand_enum that has just been called
EntryFrame(size, R, P) ==
    [st |-> "entry", size |-> size, R |-> R, P |-> P,
     order |-> <<>>, colors |-> <<>>, i |-> 0, v |-> 0]

Top(stk) == stk[Len(stk)]

Pop(stk) == SubSeq(stk, 1, Len(stk) - 1)

SetTop(stk, f) == [stk EXCEPT ![Len(stk)] = f]

\* the callee returned: the caller runs P_local &= ~v_bit and moves to the
\* next loop index
ReturnToCaller(stk) ==
    LET rest == Pop(stk)
    IN IF Len(rest) = 0 THEN rest
       ELSE LET c == Top(rest)
            IN SetTop(rest, [c EXCEPT !.st = "loop", !.P = @ \ {c.v},
                                      !.i = @ - 1])

\* mutant: the search starts from a bound above the greedy clique's size
InitLbAbove(lb) == lb + 1

\* init_lb passed to max_size
InitLb(lb) == Max2(0, lb - 2)

\* mutant: the bound cut of _expand_max prunes one colour too early
MaxBoundCutOffByOne(size, c, best) == size + c <= best + 1

\* bound cut of _expand_max
MaxBoundCut(size, c, best) == size + c <= best

\* mutant: the bound cut of _expand_enum uses <= like the max-size phase
EnumBoundCutNonStrict(size, c, target) == size + c <= target

\* bound cut of _expand_enum
EnumBoundCut(size, c, target) == size + c < target

\* mutant: a leaf is appended when it has at least target vertices
EnumLeafHitAtLeast(size, target) == size + 1 >= target

\* a leaf of _expand_enum is appended to out
EnumLeafHit(size, target) == size + 1 = target

\* cap is not None and len(out) >= cap
CapReached(cap, len) == Len(cap) > 0 /\ len >= cap[1]

\* raise TimeoutError, as the deadline check and the cap check do
TimeoutSignal == "TimeoutError"

\* mutant: max_size catches a different exception class
MaxSizeExceptOther == "ValueError"

\* the exception class named by max_size's except clause
MaxSizeExcept == "TimeoutError"

\* the exception class named by enumerate_all_max's except clause
EnumExcept == "TimeoutError"

\* the "complete" field of the result
Complete(c1, c2) == c1 /\ c2

\* the record returned when n <= 0
EarlyResult ==
    [omega |-> 0, max_cliques |-> << <<>> >>, complete |-> TRUE,
     runtime_sec |-> 0, expanded_nodes |-> 0]

\* mutant: an empty witness_rel is kept, the greedy clique is not substituted
WitnessRelNoGreedy(bits, lsz, lmask, nn) == BitsToList(bits)

\* witness_rel after max_size, with the greedy clique substituted
WitnessRel(bits, lsz, lmask, nn) ==
    LET w == BitsToList(bits)
    IN IF lsz > 0 /\ Len(w) = 0
       THEN SelectSeq([k \in 1..nn |-> k - 1], LAMBDA x : x \in lmask)
       ELSE w

MapInv(inv, xs) == [k \in 1..Len(xs) |-> inv[xs[k]]]

\* mutant: the enumerated cliques are not mapped back through invperm
CliquesAbsUnmapped(inv, cliques_rel) ==
    SortedLists({SortedList(cliques_rel[k]) : k \in 1..Len(cliques_rel)})

\* cliques_abs: map through invperm, sort each, deduplicate, sort
CliquesAbs(inv, cliques_rel) ==
    SortedLists({SortedList(MapInv(inv, cliques_rel[k])) :
                    k \in 1..Len(cliques_rel)})

\* the record returned at the end of solve_max_clique_all
FullResult(omega, witness_abs, cliques_abs, c1, c2, expanded, reord) ==
    [omega |-> omega, witness |-> SortedList(witness_abs),
     max_cliques |-> cliques_abs, complete |-> Complete(c1, c2),
     runtime_sec |-> 0, expanded_nodes |-> expanded, reordered |-> reord]

Init ==
    /\ n \in (-1)..MaxN
    /\ edges \in {PairList(S) : S \in SUBSET Pairs(n)}
    /\ reorder \in BOOLEAN
    /\ enum_cap \in {<<>>} \cup {<<c>> : c \in 0..MaxCap}
    /\ pc = "call"
    /\ adj = <<>>
    /\ invperm = <<>>
    /\ lb_sz = 0
    /\ lb_mask = {}
    /\ best_size = 0
    /\ best_bits = {}
    /\ nodes_expanded = 0
    /\ stack = <<>>
    /\ out = <<>>
    /\ complete1 = FALSE
    /\ hist = {}
    /\ result = NoResult
    /\ relabel = <<>>
    /\ graph = NoGraph
    /\ difficulty = <<0, 1>>
    /\ responses = <<>>
    /\ scores = NoResult
    /\ locals = <<>>
    /\ self = NoValidator
    /\ calls = <<>>

\* solve_max_clique_all up to the first entry of _expand_max
Start ==
    /\ pc = "call"
    /\ IF n <= 0
       THEN /\ result' = EarlyResult
            /\ pc' = "done"
            /\ UNCHANGED <<adj, invperm, lb_sz, lb_mask, best_size, best_bits,
                           nodes_expanded, stack>>
       ELSE LET G == FromEdges(n, edges)
            IN IF ~G.ok
               THEN /\ result' = [error |-> "ValueError"]
                    /\ pc' = "done"
                    /\ UNCHANGED <<adj, invperm, lb_sz, lb_mask, best_size,
                                   best_bits, nodes_expanded, stack>>
               ELSE LET G2 == IF reorder
                              THEN ReorderByDegeneracy(n, G.adj)
                              ELSE [adj |-> G.adj,
                                    perm |-> [x \in 0..(n - 1) |-> x],
                                    invperm |-> [x \in 0..(n - 1) |-> x]]
                        lb == GreedyLb(G2.adj, n)
                    IN /\ adj' = G2.adj
                       /\ invperm' = G2.invperm
                       /\ lb_sz' = lb.sz
                       /\ lb_mask' = lb.mask
                       /\ best_size' = InitLb(lb.sz)
                       /\ best_bits' = {}
                       /\ nodes_expanded' = 0
                       /\ stack' = <<EntryFrame(0, {}, 0..(n - 1))>>
                       /\ pc' = "max"
                       /\ result' = result
    /\ UNCHANGED <<n, edges, reorder, enum_cap, out, complete1, hist>>
    /\ UNCHANGED notSolver

\* max_size returns once the outermost _expand_max has returned
MaxAfter(stk) ==
    IF Len(stk) = 0
    THEN /\ pc' = "between"
         /\ complete1' = TRUE
    ELSE /\ pc' = pc
         /\ complete1' = complete1

\* _expand_max: entry with the deadline not yet reached
ExpandMaxEnter ==
    /\ pc = "max"
    /\ Top(stack).st = "entry"
    /\ LET f == Top(stack)
       IN IF f.P = {}
          THEN /\ IF f.size > best_size
                  THEN best_size' = f.size /\ best_bits' = f.R
                  ELSE UNCHANGED <<best_size, best_bits>>
               /\ stack' = ReturnToCaller(stack)
               /\ MaxAfter(stack')
          ELSE LET cs == ColorSort(f.P, adj)
               IN /\ stack' = SetTop(stack,
                        [f EXCEPT !.st = "loop", !.order = cs.order,
                                  !.colors = cs.colors, !.i = Len(cs.order)])
                  /\ UNCHANGED <<best_size, best_bits, pc, complete1>>
    /\ UNCHANGED <<n, edges, reorder, enum_cap, adj, invperm, lb_sz, lb_mask,
                   nodes_expanded, out, hist, result>>
    /\ UNCHANGED notSolver

\* _expand_max: entry after the deadline; TimeoutError unwinds to max_size
ExpandMaxTimeout ==
    /\ pc = "max"
    /\ Top(stack).st = "entry"
    /\ stack' = <<>>
    /\ hist' = hist \cup {"timeout1"}
    /\ IF TimeoutSignal = MaxSizeExcept
       THEN /\ complete1' = FALSE
            /\ pc' = "between"
            /\ result' = result
       ELSE \* not caught: the exception leaves solve_max_clique_all
            /\ complete1' = complete1
            /\ pc' = "done"
            /\ result' = [error |-> TimeoutSignal]
    /\ UNCHANGED <<n, edges, reorder, enum_cap, adj, invperm, lb_sz, lb_mask,
                   best_size, best_bits, nodes_expanded, out>>
    /\ UNCHANGED notSolver

\* _expand_max: one iteration of the loop over order, from the back
ExpandMaxLoop ==
    /\ pc = "max"
    /\ Top(stack).st = "loop"
    /\ LET f == Top(stack)
       IN IF f.i = 0 \/ MaxBoundCut(f.size, f.colors[f.i], best_size)
          THEN \* loop exhausted, or break: the call returns
               /\ stack' = ReturnToCaller(stack)
               /\ MaxAfter(stack')
               /\ UNCHANGED <<best_size, best_bits, nodes_expanded>>
          ELSE LET v == f.order[f.i]
               IN IF v \notin f.P
                  THEN /\ stack' = SetTop(stack, [f EXCEPT !.i = @ - 1])
                       /\ UNCHANGED <<best_size, best_bits, nodes_expanded,
                                      pc, complete1>>
                  ELSE LET R2 == f.R \cup {v}
                           P2 == f.P \cap adj[v]
                       IN /\ nodes_expanded' = nodes_expanded + 1
                          /\ IF P2 = {}
                             THEN /\ IF f.size + 1 > best_size
                                     THEN /\ best_size' = f.size + 1
                                          /\ best_bits' = R2
                                     ELSE UNCHANGED <<best_size, best_bits>>
                                  /\ stack' = SetTop(stack,
                                        [f EXCEPT !.P = @ \ {v}, !.i = @ - 1])
                             ELSE /\ stack' = Append(
                                        SetTop(stack, [f EXCEPT !.st = "wait",
                                                                !.v = v]),
                                        EntryFrame(f.size + 1, R2, P2))
                                  /\ UNCHANGED <<best_size, best_bits>>
                          /\ UNCHANGED <<pc, complete1>>
    /\ UNCHANGED <<n, edges, reorder, enum_cap, adj, invperm, lb_sz, lb_mask,
                   out, hist, result>>
    /\ UNCHANGED notSolver

\* mutant: an aborted max_size reports no clique size at all
OmegaLostOnAbort == IF complete1 THEN best_size ELSE 0

\* omega and witness_abs as computed after max_size returned
Omega == best_size

WitnessAbs == MapInv(invperm, WitnessRel(best_bits, lb_sz, lb_mask, n))

\* the tail of solve_max_clique_all: build and return the record
Finish(cliques_rel, c2, expanded) ==
    /\ result' = FullResult(Omega, WitnessAbs, CliquesAbs(invperm, cliques_rel),
                            complete1, c2, expanded, reorder)
    /\ pc' = "done"

\* after max_size: witness, remaining budget, and the start of the
\* enumeration phase when budget remains and omega > 0
PhaseSwitch ==
    /\ pc = "between"
    /\ \E t_remaining_positive \in BOOLEAN :
          IF t_remaining_positive /\ Omega > 0
          THEN /\ nodes_expanded' = 0
               /\ out' = <<>>
               /\ stack' = <<EntryFrame(0, {}, 0..(n - 1))>>
               /\ pc' = "enum"
               /\ hist' = hist \cup {"enum_run"}
               /\ result' = result
          ELSE /\ Finish(<<>>, TRUE, nodes_expanded)
               /\ hist' = hist \cup {"enum_skipped"} \cup
                          (IF t_remaining_positive THEN {} ELSE {"no_budget"})
               /\ UNCHANGED <<nodes_expanded, out, stack>>
    /\ UNCHANGED <<n, edges, reorder, enum_cap, adj, invperm, lb_sz, lb_mask,
                   best_size, best_bits, complete1>>
    /\ UNCHANGED notSolver

\* TimeoutError raised inside _expand_enum with out2 collected so far
EnumRaise(out2, expanded) ==
    /\ stack' = <<>>
    /\ IF TimeoutSignal = EnumExcept
       THEN Finish(out2, FALSE, expanded)
       ELSE \* not caught: the exception leaves solve_max_clique_all
            /\ pc' = "done"
            /\ result' = [error |-> TimeoutSignal]

\* control after an iteration of _expand_enum's loop finished or a call of
\* _expand_enum returned: the outermost return ends enumerate_all_max with
\* complete = True, otherwise the (caller's) cap check runs
EnumContinue(stk2, out2, expanded) ==
    IF Len(stk2) = 0
    THEN /\ stack' = stk2
         /\ Finish(out2, TRUE, expanded)
         /\ hist' = hist
    ELSE IF CapReached(enum_cap, Len(out2))
    THEN /\ EnumRaise(out2, expanded)
         /\ hist' = hist \cup {"cap"}
    ELSE /\ stack' = stk2
         /\ pc' = pc
         /\ result' = result
         /\ hist' = hist

\* _expand_enum: entry with the deadline not yet reached
ExpandEnumEnter ==
    /\ pc = "enum"
    /\ Top(stack).st = "entry"
    /\ LET f == Top(stack)
       IN IF f.P = {}
          THEN LET out2 == IF f.size = Omega
                           THEN Append(out, BitsToList(f.R)) ELSE out
               IN /\ out' = out2
                  /\ EnumContinue(ReturnToCaller(stack), out2, nodes_expanded)
          ELSE LET cs == ColorSort(f.P, adj)
               IN /\ stack' = SetTop(stack,
                        [f EXCEPT !.st = "loop", !.order = cs.order,
                                  !.colors = cs.colors, !.i = Len(cs.order)])
                  /\ UNCHANGED <<out, pc, result, hist>>
    /\ UNCHANGED <<n, edges, reorder, enum_cap, adj, invperm, lb_sz, lb_mask,
                   best_size, best_bits, nodes_expanded, complete1>>
    /\ UNCHANGED notSolver

\* _expand_enum: entry after the deadline; TimeoutError unwinds to
\* enumerate_all_max, which returns complete = False
ExpandEnumTimeout ==
    /\ pc = "enum"
    /\ Top(stack).st = "entry"
    /\ EnumRaise(out, nodes_expanded)
    /\ hist' = hist \cup {"timeout2"}
    /\ UNCHANGED <<n, edges, reorder, enum_cap, adj, invperm, lb_sz, lb_mask,
                   best_size, best_bits, nodes_expanded, out, complete1>>
    /\ UNCHANGED notSolver

\* _expand_enum: one iteration of the loop over order, from the back
ExpandEnumLoop ==
    /\ pc = "enum"
    /\ Top(stack).st = "loop"
    /\ LET f == Top(stack)
       IN IF f.i = 0 \/ EnumBoundCut(f.size, f.colors[f.i], Omega)
          THEN \* loop exhausted, or break: the call returns
               /\ EnumContinue(ReturnToCaller(stack), out, nodes_expanded)
               /\ UNCHANGED <<out, nodes_expanded>>
          ELSE LET v == f.order[f.i]
               IN IF v \notin f.P
                  THEN /\ stack' = SetTop(stack, [f EXCEPT !.i = @ - 1])
                       /\ UNCHANGED <<out, nodes_expanded, pc, result, hist>>
                  ELSE LET R2 == f.R \cup {v}
                           P2 == f.P \cap adj[v]
                           hit == P2 = {} /\ EnumLeafHit(f.size, Omega)
                           out2 == IF hit THEN Append(out, BitsToList(R2))
                                   ELSE out
                       IN /\ nodes_expanded' = nodes_expanded + 1
                          /\ out' = out2
                          /\ IF P2 = {}
                             THEN IF hit /\ CapReached(enum_cap, Len(out2))
                                  THEN /\ EnumRaise(out2, nodes_expanded + 1)
                                       /\ hist' = hist \cup {"cap"}
                                  ELSE EnumContinue(
                                          SetTop(stack, [f EXCEPT
                                              !.P = @ \ {v}, !.i = @ - 1]),
                                          out2, nodes_expanded + 1)
                             ELSE /\ stack' = Append(
                                        SetTop(stack, [f EXCEPT !.st = "wait",
                                                                !.v = v]),
                                        EntryFrame(f.size + 1, R2, P2))
                                  /\ UNCHANGED <<pc, result, hist>>
    /\ UNCHANGED <<n, edges, reorder, enum_cap, adj, invperm, lb_sz, lb_mask,
                   best_size, best_bits, complete1>>
    /\ UNCHANGED notSolver

Next ==
    \/ Start
    \/ ExpandMaxEnter
    \/ ExpandMaxTimeout
    \/ ExpandMaxLoop
    \/ PhaseSwitch
    \/ ExpandEnumEnter
    \/ ExpandEnumTimeout
    \/ ExpandEnumLoop

Spec == Init /\ [][Next]_vars

\* ------------------------------------------------- brute-force reference
\* u and v are joined by an edge of the input list, in either orientation
InputAdjacent(u, v) ==
    \E k \in 1..Len(edges) :
        \/ edges[k] = <<u, v>>
        \/ edges[k] = <<v, u>>

IsInputClique(S) == \A u \in S : \A v \in S : u # v => InputAdjacent(u, v)

InputCliques == {S \in SUBSET (0..(n - 1)) : IsInputClique(S)}

CliqueNumber ==
    CHOOSE k \in 0..n :
        /\ \E S \in InputCliques : Cardinality(S) = k
        /\ \A S \in InputCliques : Cardinality(S) <= k

Returned == pc = "done" /\ "omega" \in DOMAIN result

TypeOK ==
    /\ pc \in {"call", "max", "between", "enum", "done"}
    /\ best_size \in 0..MaxN
    /\ Len(stack) <= MaxN + 1

\* the cliques of the input graph with exactly k vertices, as ascending lists
InputCliqueLists(k) ==
    {BitsToList(S) : S \in {T \in InputCliques : Cardinality(T) = k}}

\* xs is an ascending list of pairwise adjacent input vertices
IsAscendingCliqueList(xs) ==
    /\ \A k \in 1..(Len(xs) - 1) : xs[k] < xs[k + 1]
    /\ IsInputClique(Range(xs))

DeadlineAborted == "timeout1" \in hist \/ "timeout2" \in hist

\* --------------------------------------------------------------- claims

\* C1: for n >= 1, when no phase is aborted by its deadline check and no
\* enum_cap is given, the returned record has complete = true and omega
\* equal to the clique number found by enumerating all vertex subsets.
C1_OmegaIsCliqueNumber ==
    (Returned /\ n >= 1 /\ ~DeadlineAborted /\ enum_cap = <<>>)
        => (result.complete = TRUE /\ result.omega = CliqueNumber)

C1_Witness ==
    /\ Returned /\ n >= 1 /\ ~DeadlineAborted /\ enum_cap = <<>>
    /\ "enum_run" \in hist
    /\ result.omega = 3
    /\ Len(result.max_cliques) = 2

\* C2: for n >= 1, when both phases ran to the end (no deadline abort, no
\* enum_cap), max_cliques lists exactly the pairwise-adjacent vertex sets of
\* size omega of the input graph, none missing, none extra, none twice.
C2_MaxCliquesExact ==
    (Returned /\ n >= 1 /\ "enum_run" \in hist /\ ~DeadlineAborted
        /\ enum_cap = <<>>)
        => /\ Range(result.max_cliques) = InputCliqueLists(result.omega)
           /\ Len(result.max_cliques) =
                  Cardinality(InputCliqueLists(result.omega))

C2_Witness ==
    /\ Returned /\ n >= 1 /\ "enum_run" \in hist /\ ~DeadlineAborted
    /\ enum_cap = <<>>
    /\ reorder
    /\ result.omega = 2
    /\ Len(result.max_cliques) = 3

\* C3 (as claimed): in every outcome for n >= 1 the witness is an ascending
\* list of exactly omega pairwise adjacent vertices, empty when omega = 0.
C3_WitnessHasOmegaVertices ==
    (Returned /\ n >= 1)
        => /\ IsAscendingCliqueList(result.witness)
           /\ Len(result.witness) = result.omega
           /\ (result.omega = 0 => result.witness = <<>>)

\* C4: in every outcome every list of max_cliques has exactly omega
\* vertices, all distinct and pairwise adjacent in the input graph.
C4_MaxCliquesAreOmegaCliques ==
    Returned =>
        \A k \in 1..Len(result.max_cliques) :
            LET c == result.max_cliques[k]
            IN /\ Len(c) = result.omega
               /\ Cardinality(Range(c)) = Len(c)
               /\ IsInputClique(Range(c))

C4_Witness ==
    /\ Returned
    /\ "timeout1" \in hist
    /\ result.omega < CliqueNumber
    /\ Len(result.max_cliques) >= 2

\* C5 (as claimed): whenever omega > 0 and the enumeration ran to the end of
\* its search, the witness is one of the lists of max_cliques, whether the
\* max-size phase completed or was aborted.
C5_WitnessEnumerated ==
    (Returned /\ n >= 1 /\ result.omega > 0 /\ "enum_run" \in hist
        /\ "timeout2" \notin hist /\ "cap" \notin hist)
        => result.witness \in Range(result.max_cliques)

\* C6 (as claimed): in every outcome, if witness and max_cliques are both
\* non-empty then the witness is an element of max_cliques.
C6_WitnessInNonEmptyMaxCliques ==
    (Returned /\ n >= 1 /\ result.witness # <<>>
        /\ result.max_cliques # <<>>)
        => result.witness \in Range(result.max_cliques)

\* C7 (as claimed): for n >= 1, complete = true if and only if both phases
\* were executed and both finished without deadline abort or cap abort; a
\* run whose enumeration was skipped does not report complete = true.
C7_CompleteIffBothPhasesFinished ==
    (Returned /\ n >= 1)
        => (result.complete <=>
               ("enum_run" \in hist /\ ~DeadlineAborted /\ "cap" \notin hist))

\* C8: a deadline abort in either phase never leaves solve_max_clique_all as
\* an exception: a result record is returned and it has complete = false.
C8_TimeoutSurfacesAsIncomplete ==
    (pc = "done" /\ DeadlineAborted)
        => ("complete" \in DOMAIN result /\ result.complete = FALSE)

C8_Witness ==
    /\ Returned
    /\ "timeout1" \in hist /\ "timeout2" \in hist
    /\ Len(result.max_cliques) >= 1

\* C9 (as claimed): with enum_cap = c, c >= 0, max_cliques holds at most c
\* lists in every outcome.
C9_AtMostCapCliques ==
    (Returned /\ n >= 1 /\ Len(enum_cap) > 0)
        => Len(result.max_cliques) <= enum_cap[1]

\* C10 (as claimed): every returned record, the immediate one for n <= 0
\* included, carries all seven fields.
C10_SevenFields ==
    (pc = "done" /\ "error" \notin DOMAIN result)
        => DOMAIN result = {"omega", "witness", "max_cliques", "complete",
                            "runtime_sec", "expanded_nodes", "reordered"}

\* C11 (as claimed): solve_max_clique_all called with n < 0 fails with an
\* input error and returns no result record.
C11_NegativeNRaises ==
    (pc = "done" /\ n < 0) => "error" \in DOMAIN result

\* C20 (as claimed): the max-size phase starts from init_lb = lb_sz, so the
\* returned omega is never smaller than the greedy clique, in every outcome.
C20_OmegaAtLeastGreedy ==
    (Returned /\ n >= 1) => result.omega >= lb_sz

\* ------------------------------------------- BitGraph.from_edges on its own
\* all lists of at most len items of S
ListsUpTo(S, len) == UNION {[1..k -> S] : k \in 0..len}

\* a call of BitGraph.from_edges(n, edges) with any endpoints, in or out of
\* range, self-loops and repeated edges included
InitEdges ==
    /\ n \in (-1)..MaxEdgeN
    /\ edges \in ListsUpTo(((-1)..MaxEdgeN) \X ((-1)..MaxEdgeN), MaxEdgeLen)
    /\ reorder = FALSE
    /\ enum_cap = <<>>
    /\ pc = "from_edges"
    /\ adj = <<>>
    /\ invperm = <<>>
    /\ lb_sz = 0
    /\ lb_mask = {}
    /\ best_size = 0
    /\ best_bits = {}
    /\ nodes_expanded = 0
    /\ stack = <<>>
    /\ out = <<>>
    /\ complete1 = FALSE
    /\ hist = {}
    /\ result = NoResult
    /\ relabel = <<>>
    /\ graph = NoGraph
    /\ difficulty = <<0, 1>>
    /\ responses = <<>>
    /\ scores = NoResult
    /\ locals = <<>>
    /\ self = NoValidator
    /\ calls = <<>>

\* BitGraph.from_edges returns the graph or raises ValueError
FromEdgesCall ==
    /\ pc = "from_edges"
    /\ LET G == FromEdges(n, edges)
       IN result' = IF G.ok THEN [n |-> n, adj |-> G.adj]
                    ELSE [error |-> "ValueError"]
    /\ pc' = "done"
    /\ UNCHANGED <<n, edges, reorder, enum_cap, adj, invperm, lb_sz, lb_mask,
                   best_size, best_bits, nodes_expanded, stack, out,
                   complete1, hist>>
    /\ UNCHANGED notSolver

NextEdges == FromEdgesCall

SpecEdges == InitEdges /\ [][NextEdges]_vars

\* some edge (u, v) of the list with u # v has an endpoint outside [0, n)
HasOutOfBoundsEdge ==
    \E k \in 1..Len(edges) :
        /\ edges[k][1] # edges[k][2]
        /\ \/ edges[k][1] < 0 \/ edges[k][1] >= n
           \/ edges[k][2] < 0 \/ edges[k][2] >= n

\* C12: from_edges raises exactly when some non-loop edge has an endpoint
\* outside [0,n); otherwise bit v of adj[u] is set exactly when {u,v}, u # v,
\* occurs in edges in either orientation, so adj is symmetric and has no
\* self bit.
C12_FromEdgesContract ==
    pc = "done" =>
        /\ ("error" \in DOMAIN result) <=> HasOutOfBoundsEdge
        /\ ~HasOutOfBoundsEdge =>
              /\ DOMAIN result.adj = 0..(n - 1)
              /\ \A u \in 0..(n - 1) : \A v \in 0..(n - 1) :
                    (v \in result.adj[u]) <=> (u # v /\ InputAdjacent(u, v))
              /\ \A u \in 0..(n - 1) : result.adj[u] \subseteq 0..(n - 1)
              /\ \A u \in 0..(n - 1) : \A v \in result.adj[u] :
                    u \in result.adj[v]
              /\ \A u \in 0..(n - 1) : u \notin result.adj[u]

\* a graph built from a list with a self-loop and the same edge in both
\* orientations
C12_Witness ==
    /\ pc = "done" /\ "adj" \in DOMAIN result
    /\ n = 3
    /\ Len(edges) = 2
    /\ edges[1] = <<2, 0>> /\ edges[2] = <<0, 2>>
    /\ result.adj[0] = {2}

\* ------------------------------------------- a whole run without any abort
\* _expand_max and its loop as a function of (best_size, best_bits,
\* nodes_expanded), for a search the deadline never interrupts
RECURSIVE ExpandMaxRun(_, _, _, _, _)
RECURSIVE ExpandMaxRunLoop(_, _, _, _, _, _, _)
ExpandMaxRun(a, size, R, P, st) ==
    IF P = {}
    THEN IF size > st.best_size
         THEN [st EXCEPT !.best_size = size, !.best_bits = R]
         ELSE st
    ELSE LET cs == ColorSort(P, a)
         IN ExpandMaxRunLoop(a, size, R, P, cs, Len(cs.order), st)

ExpandMaxRunLoop(a, size, R, P_local, cs, i, st) ==
    IF i = 0 \/ MaxBoundCut(size, cs.colors[i], st.best_size) THEN st
    ELSE LET v == cs.order[i]
         IN IF v \notin P_local
            THEN ExpandMaxRunLoop(a, size, R, P_local, cs, i - 1, st)
            ELSE LET R2 == R \cup {v}
                     P2 == P_local \cap a[v]
                     st1 == [st EXCEPT !.nodes_expanded = @ + 1]
                     st2 == IF P2 = {}
                            THEN IF size + 1 > st1.best_size
                                 THEN [st1 EXCEPT !.best_size = size + 1,
                                                  !.best_bits = R2]
                                 ELSE st1
                            ELSE ExpandMaxRun(a, size + 1, R2, P2, st1)
                 IN ExpandMaxRunLoop(a, size, R, P_local \ {v}, cs, i - 1,
                                     st2)

\* _expand_enum and its loop with cap = None, as a function of
\* (out, nodes_expanded)
RECURSIVE ExpandEnumRun(_, _, _, _, _, _)
RECURSIVE ExpandEnumRunLoop(_, _, _, _, _, _, _, _)
ExpandEnumRun(a, size, R, P, target, st) ==
    IF P = {}
    THEN IF size = target
         THEN [st EXCEPT !.out = Append(@, BitsToList(R))]
         ELSE st
    ELSE LET cs == ColorSort(P, a)
         IN ExpandEnumRunLoop(a, size, R, P, target, cs, Len(cs.order), st)

ExpandEnumRunLoop(a, size, R, P_local, target, cs, i, st) ==
    IF i = 0 \/ EnumBoundCut(size, cs.colors[i], target) THEN st
    ELSE LET v == cs.order[i]
         IN IF v \notin P_local
            THEN ExpandEnumRunLoop(a, size, R, P_local, target, cs, i - 1, st)
            ELSE LET R2 == R \cup {v}
                     P2 == P_local \cap a[v]
                     st1 == [st EXCEPT !.nodes_expanded = @ + 1]
                     st2 == IF P2 = {}
                            THEN IF EnumLeafHit(size, target)
                                 THEN [st1 EXCEPT
                                          !.out = Append(@, BitsToList(R2))]
                                 ELSE st1
                            ELSE ExpandEnumRun(a, size + 1, R2, P2, target,
                                               st1)
                 IN ExpandEnumRunLoop(a, size, R, P_local \ {v}, target, cs,
                                      i - 1, st2)

\* solve_max_clique_all(n, edges, reorder=reord) for n >= 1 and in-range
\* edges when no deadline check fails, budget remains for the enumeration
\* and enum_cap is None
SolveRun(nn, es, reord) ==
    LET G == FromEdges(nn, es)
        G2 == IF reord
              THEN ReorderByDegeneracy(nn, G.adj)
              ELSE [adj |-> G.adj,
                    perm |-> [x \in 0..(nn - 1) |-> x],
                    invperm |-> [x \in 0..(nn - 1) |-> x]]
        lb == GreedyLb(G2.adj, nn)
        m == ExpandMaxRun(G2.adj, 0, {}, 0..(nn - 1),
                 [best_size |-> InitLb(lb.sz), best_bits |-> {},
                  nodes_expanded |-> 0])
        omega == m.best_size
        witness_abs ==
            MapInv(G2.invperm, WitnessRel(m.best_bits, lb.sz, lb.mask, nn))
        e == IF omega > 0
             THEN ExpandEnumRun(G2.adj, 0, {}, 0..(nn - 1), omega,
                      [out |-> <<>>, nodes_expanded |-> 0])
             ELSE [out |-> <<>>, nodes_expanded |-> m.nodes_expanded]
    IN FullResult(omega, witness_abs, CliquesAbs(G2.invperm, e.out),
                  TRUE, TRUE, e.nodes_expanded, reord)

\* the stepwise run and the run computed as a whole agree
RunAgreesWithSteps ==
    (Returned /\ n >= 1 /\ hist = {"enum_run"} /\ enum_cap = <<>>)
        => result = SolveRun(n, edges, reorder)

\* --------------------------------------------- solving a relabelled graph
VertexPermutations(nn) ==
    {f \in [0..(nn - 1) -> 0..(nn - 1)] :
        \A x \in 0..(nn - 1) : \A y \in 0..(nn - 1) : f[x] = f[y] => x = y}

\* the edge list with every endpoint renamed by p
RelabelEdges(p, es) == [k \in 1..Len(es) |-> <<p[es[k][1]], p[es[k][2]]>>]

\* a graph, a relabelling of its vertices, and a call of
\* solve_max_clique_all still to be made on each of the two edge lists
InitPerm ==
    /\ n \in 1..MaxPermN
    /\ edges \in {PairList(S) : S \in SUBSET Pairs(n)}
    /\ reorder \in BOOLEAN
    /\ relabel \in VertexPermutations(n)
    /\ enum_cap = <<>>
    /\ pc = "relabel"
    /\ adj = <<>>
    /\ invperm = <<>>
    /\ lb_sz = 0
    /\ lb_mask = {}
    /\ best_size = 0
    /\ best_bits = {}
    /\ nodes_expanded = 0
    /\ stack = <<>>
    /\ out = <<>>
    /\ complete1 = FALSE
    /\ hist = {}
    /\ result = NoResult
    /\ graph = NoGraph
    /\ difficulty = <<0, 1>>
    /\ responses = <<>>
    /\ scores = NoResult
    /\ locals = <<>>
    /\ self = NoValidator
    /\ calls = <<>>

\* solve_max_clique_all on the graph and on the relabelled graph, both
\* running to the end
SolveBoth ==
    /\ pc = "relabel"
    /\ result' = [original |-> SolveRun(n, edges, reorder),
                  relabelled |->
                      SolveRun(n, RelabelEdges(relabel, edges), reorder)]
    /\ pc' = "done"
    /\ UNCHANGED <<n, edges, reorder, enum_cap, adj, invperm, lb_sz, lb_mask,
                   best_size, best_bits, nodes_expanded, stack, out,
                   complete1, hist>>
    /\ UNCHANGED notSolver

NextPerm == SolveBoth

SpecPerm == InitPerm /\ [][NextPerm]_vars

\* the vertex sets of a list of cliques, each renamed by p
ImageSets(p, cliques) ==
    {{p[c[j]] : j \in 1..Len(c)} : c \in Range(cliques)}

CliqueSets(cliques) == {Range(c) : c \in Range(cliques)}

\* C13: solving the relabelled graph p(G) without abort gives the same omega
\* as solving G, and its max_cliques are exactly the images under p of the
\* max_cliques of G.
C13_RelabellingInvariance ==
    (pc = "done" /\ "original" \in DOMAIN result) =>
        /\ result.relabelled.omega = result.original.omega
        /\ CliqueSets(result.relabelled.max_cliques) =
               ImageSets(relabel, result.original.max_cliques)
        /\ Len(result.relabelled.max_cliques) =
               Len(result.original.max_cliques)

C13_Witness ==
    /\ pc = "done" /\ "original" \in DOMAIN result
    /\ reorder
    /\ result.original.omega = 2
    /\ Len(result.original.max_cliques) = 2
    /\ result.relabelled.max_cliques # result.original.max_cliques
    /\ relabel[0] # 0

\* ================================================================ Scorer
\* (CliqueAI/scoring/clique_scoring.py)
\*
\* numpy's floats are modelled exactly.  A rational is <<num, den>> in lowest
\* terms with den > 0; <<0, 0>> is the outcome of a division by zero.  A
\* score is [c |-> rational, x |-> rational], the real number c * e^(-x);
\* a reward is [c, x, plus], the real number c * e^(-x) + plus.  Rounding
\* is not modelled.

RECURSIVE Gcd(_, _)
Gcd(a, b) == IF b = 0 THEN a ELSE Gcd(b, a % b)

Abs(a) == IF a < 0 THEN -a ELSE a

NaN == <<0, 0>>

IsNaN(q) == q[2] = 0

\* the rational num / den
Rat(num, den) ==
    IF den = 0 THEN NaN
    ELSE LET g == Gcd(Abs(num), Abs(den))
             sgn == IF den < 0 THEN -1 ELSE 1
         IN <<sgn * (num \div g), sgn * (den \div g)>>

RatInt(k) == <<k, 1>>

RatAdd(p, q) ==
    IF IsNaN(p) \/ IsNaN(q) THEN NaN
    ELSE Rat(p[1] * q[2] + q[1] * p[2], p[2] * q[2])

RatSub(p, q) ==
    IF IsNaN(p) \/ IsNaN(q) THEN NaN
    ELSE Rat(p[1] * q[2] - q[1] * p[2], p[2] * q[2])

RatMul(p, q) ==
    IF IsNaN(p) \/ IsNaN(q) THEN NaN ELSE Rat(p[1] * q[1], p[2] * q[2])

\* p / q; dividing by zero gives NaN
RatDiv(p, q) ==
    IF IsNaN(p) \/ IsNaN(q) THEN NaN ELSE Rat(p[1] * q[2], p[2] * q[1])

RatLess(p, q) == p[1] * q[2] < q[1] * p[2]

RatLeq(p, q) == p[1] * q[2] <= q[1] * p[2]

\* the real number c * e^(-x) + plus, in canonical form: a rational number
\* is written with c = 0 and x = 0
Real(c, x, plus) ==
    IF IsNaN(c) \/ IsNaN(x) \/ IsNaN(plus)
    THEN [c |-> NaN, x |-> NaN, plus |-> NaN]
    ELSE IF c[1] = 0 \/ x[1] = 0
         THEN [c |-> RatInt(0), x |-> RatInt(0), plus |-> RatAdd(c, plus)]
         ELSE [c |-> c, x |-> x, plus |-> plus]

RealOfRat(q) == Real(RatInt(0), RatInt(0), q)

RealZero == RealOfRat(RatInt(0))

\* np.exp(-q)
ExpNeg(q) == Real(RatInt(1), q, RatInt(0))

RealIsNaN(r) == IsNaN(r.plus)

IsRational(r) == ~RealIsNaN(r) /\ r.c = RatInt(0)

\* r * q for a rational q
RealScale(r, q) == Real(RatMul(r.c, q), r.x, RatMul(r.plus, q))

\* r + q for a rational q
RealPlus(r, q) == Real(r.c, r.x, RatAdd(r.plus, q))

\* r + s where at least one of the two is rational
RealAdd(r, s) ==
    IF RealIsNaN(r) \/ RealIsNaN(s) THEN RealOfRat(NaN)
    ELSE IF IsRational(s) THEN RealPlus(r, s.plus) ELSE RealPlus(s, r.plus)

\* r / m, for m rational or m = c * e^(-x) and r rational or a multiple of
\* an exponential; dividing by zero gives NaN
RealDiv(r, m) ==
    IF RealIsNaN(r) \/ RealIsNaN(m) THEN RealOfRat(NaN)
    ELSE IF IsRational(m)
         THEN Real(RatDiv(r.c, m.plus), r.x, RatDiv(r.plus, m.plus))
         ELSE IF IsRational(r)
              THEN Real(RatDiv(r.plus, m.c), RatSub(RatInt(0), m.x), RatInt(0))
              ELSE Real(RatDiv(r.c, m.c), RatSub(r.x, m.x), RatInt(0))

\* bounds of c * e^(-x) + plus for c > 0 and x > 0, where 0 < e^(-x) < 1;
\* both are exact for a rational number
RealLower(r) == r.plus

RealUpper(r) == RatAdd(r.c, r.plus)

\* r <= m, exact when both are rational, when they differ in x only, and
\* when the bounds separate them
RealLeq(r, m) ==
    IF IsRational(r) /\ IsRational(m) THEN RatLeq(r.plus, m.plus)
    ELSE IF ~IsRational(r) /\ ~IsRational(m) /\ r.c = m.c /\ r.plus = m.plus
         THEN RatLeq(m.x, r.x)
         ELSE RatLeq(RealUpper(r), RealLower(m))

\* r < m, with the same cases
RealLess(r, m) ==
    IF IsRational(r) /\ IsRational(m) THEN RatLess(r.plus, m.plus)
    ELSE IF ~IsRational(r) /\ ~IsRational(m) /\ r.c = m.c /\ r.plus = m.plus
         THEN RatLess(m.x, r.x)
         ELSE RatLeq(RealUpper(r), RealLower(m))

\* mutant: the first element stands for the largest
RealMaxFirst(rs) == rs[1]

\* np.max of a non-empty list
RealMax(rs) ==
    CHOOSE m \in Range(rs) : \A r \in Range(rs) : RealLeq(r, m)

\* list[i] as Python indexes a list: 0-based, negative i counts from the end
PyIndexOk(list, i) == -Len(list) <= i /\ i < Len(list)

PyGet(list, i) == IF i >= 0 THEN list[i + 1] ELSE list[Len(list) + i + 1]

\* ---- is_valid_maximum_clique (clique_scoring.py:24-53)

\* mutant: the pair loop compares each element with its successor only
RECURSIVE PairLoopConsecutive(_, _, _, _)
PairLoopConsecutive(g, nodes, i, j) ==
    IF i >= Len(nodes) THEN "true"
    ELSE IF j >= Len(nodes) \/ j > i + 1
         THEN PairLoopConsecutive(g, nodes, i + 1, i + 2)
    ELSE IF ~PyIndexOk(g.adjacency_list, nodes[i + 1]) THEN "IndexError"
    ELSE IF nodes[j + 1] \notin Range(PyGet(g.adjacency_list, nodes[i + 1]))
         THEN "false"
         ELSE PairLoopConsecutive(g, nodes, i, j + 1)

\* the pair loop from (i, j), 0-based: "true" when every later pair passes
RECURSIVE PairLoop(_, _, _, _)
PairLoop(g, nodes, i, j) ==
    IF i >= Len(nodes) THEN "true"
    ELSE IF j >= Len(nodes) THEN PairLoop(g, nodes, i + 1, i + 2)
    ELSE IF ~PyIndexOk(g.adjacency_list, nodes[i + 1]) THEN "IndexError"
    ELSE IF nodes[j + 1] \notin Range(PyGet(g.adjacency_list, nodes[i + 1]))
         THEN "false"
         ELSE PairLoop(g, nodes, i, j + 1)

\* mutant: no candidate is tried, every clique counts as non-extendable
ExtensionLoopNone(g, node_set, remaining_nodes) == "true"

\* the extension loop over remaining_nodes, in ascending order
RECURSIVE ExtensionLoop(_, _, _)
ExtensionLoop(g, node_set, remaining_nodes) ==
    IF remaining_nodes = {} THEN "true"
    ELSE LET candidate == Min(remaining_nodes)
         IN IF ~PyIndexOk(g.adjacency_list, candidate) THEN "IndexError"
            ELSE IF node_set \subseteq Range(PyGet(g.adjacency_list, candidate))
                 THEN "false"
                 ELSE ExtensionLoop(g, node_set, remaining_nodes \ {candidate})

\* "true", "false", or "IndexError" when adjacency_list is indexed out of range
IsValidMaximumClique(g, nodes) ==
    LET node_set == Range(nodes)
        all_nodes == 0..(g.number_of_nodes - 1)
    IN IF Cardinality(node_set) = 0 THEN "false"
       ELSE IF Cardinality(node_set) # Len(nodes) THEN "false"
       ELSE IF ~(node_set \subseteq all_nodes) THEN "false"
       ELSE LET pairs == PairLoop(g, nodes, 0, 1)
            IN IF pairs # "true" THEN pairs
               ELSE ExtensionLoop(g, node_set, all_nodes \ node_set)

\* ---- optimality (clique_scoring.py:55-86)

\* np.array(xs): the list with every entry computed
Array(xs) == SubSeq(xs, 1, Len(xs))

\* val: 1 for a valid response, 0 otherwise
Val(g, rs) ==
    Array([i \in 1..Len(rs) |->
              IF IsValidMaximumClique(g, rs[i]) = "true" THEN 1 ELSE 0])

\* size = lengths * val
Size(val, rs) == Array([i \in 1..Len(rs) |-> Len(rs[i]) * val[i]])

\* np.zeros(k)
Zeros(k) == Array([i \in 1..k |-> RealZero])

\* np.max of a non-empty list of integers
IntMax(xs) == CHOOSE m \in Range(xs) : \A y \in Range(xs) : y <= m

\* mutant: pr[i] counts the responses at least as large as response i
PrNonStrict(size, i) ==
    RealOfRat(Rat(Cardinality({j \in 1..Len(size) : size[j] >= size[i]}), Len(size)))

\* pr[i]: the fraction of responses whose size is larger than size[i]
Pr(size, i) ==
    RealOfRat(Rat(Cardinality({j \in 1..Len(size) : size[j] > size[i]}), Len(size)))

\* mutant: omega[i] is e^0 for every valid response, whatever its rank
RawOmegaIgnoringRank(val, pr, rel, i) ==
    IF val[i] # 0 THEN ExpNeg(RatInt(0)) ELSE RealZero

\* omega[i] before normalisation: e^(-pr[i] / rel[i]) for a valid response
RawOmega(val, pr, rel, i) ==
    IF val[i] # 0 THEN ExpNeg(RatDiv(pr[i].plus, rel[i].plus)) ELSE RealZero

\* mutant: the guard is missing, max_size = 0 reaches the division
NoValidSizeNever(max_size) == FALSE

\* the guard "max_size <= 0" before the division by max_size
NoValidSize(max_size) == max_size <= 0

Optimality(g, rs) ==
    LET val == Val(g, rs)
        size == Size(val, rs)
        k == Len(rs)
        zeros == Zeros(k)
        allZero == [rel |-> zeros, pr |-> zeros, omega |-> zeros,
                    optimality |-> zeros]
    IN IF k = 0 THEN allZero
       ELSE LET max_size == IntMax(size)
            IN IF NoValidSize(max_size) THEN allZero
               ELSE LET rel == Array([i \in 1..k |->
                                         RealOfRat(Rat(size[i], max_size))])
                        pr == Array([i \in 1..k |-> Pr(size, i)])
                        omega == Array([i \in 1..k |->
                                           RawOmega(val, pr, rel, i)])
                        max_omega == RealMax(omega)
                    IN IF max_omega = RealZero
                       THEN [rel |-> rel, pr |-> pr, omega |-> omega,
                             optimality |-> omega]
                       ELSE [rel |-> rel, pr |-> pr, omega |-> omega,
                             optimality |->
                                 Array([i \in 1..k |->
                                           RealDiv(omega[i], max_omega)])]

\* ---- diversity (clique_scoring.py:88-111)

\* counts[sol] for sol = canonical_responses[i]
Counts(canonical_responses, i) ==
    Cardinality({j \in 1..Len(canonical_responses) :
                    canonical_responses[j] = canonical_responses[i]})

\* mutant: delta[i] = unq[i], invalid responses keep their uniqueness
DeltaWithoutVal(val, unq, i) == RealOfRat(unq[i])

\* delta[i] = val[i] * unq[i]
Delta(val, unq, i) == RealOfRat(RatMul(RatInt(val[i]), unq[i]))

Diversity(g, rs) ==
    LET val == Val(g, rs)
        k == Len(rs)
        canonical_responses == Array([i \in 1..k |-> SortedList(rs[i])])
        unq == Array([i \in 1..k |-> Rat(1, Counts(canonical_responses, i))])
        delta == Array([i \in 1..k |-> Delta(val, unq, i)])
    IN IF k = 0 THEN <<>>
       ELSE LET max_delta == RealMax(delta)
            IN IF max_delta = RealZero THEN delta
               ELSE Array([i \in 1..k |-> RealDiv(delta[i], max_delta)])

\* ---- get_scores (clique_scoring.py:113-123)

\* the six vectors, or the exception is_valid_maximum_clique raised
GetScoresResult(g, d, rs) ==
    IF \E i \in 1..Len(rs) : IsValidMaximumClique(g, rs[i]) = "IndexError"
    THEN [error |-> "IndexError"]
    ELSE LET o == Optimality(g, rs)
             diversity == Diversity(g, rs)
             rewards == Array([i \in 1..Len(rs) |->
                                  RealAdd(RealScale(o.optimality[i],
                                                    RatAdd(RatInt(1), d)),
                                          diversity[i])])
         IN [rel |-> o.rel, pr |-> o.pr, omega |-> o.omega,
             optimality |-> o.optimality, diversity |-> diversity,
             rewards |-> rewards]

\* ---- CliqueScoreCalculator(graph, difficulty, responses).get_scores()

\* LambdaGraph of an undirected graph: adjacency_list[v] lists the neighbours
\* of v in ascending order
LambdaGraphOf(nn, E) ==
    [number_of_nodes |-> nn,
     adjacency_list |->
         [v \in 1..nn |->
             BitsToList({w \in 0..(nn - 1) :
                            <<v - 1, w>> \in E \/ <<w, v - 1>> \in E})]]

\* the undirected graphs on nn vertices, one labelling per degree sequence
\* in non-increasing order
Graphs(nn) ==
    {LambdaGraphOf(nn, E) : E \in
        {F \in SUBSET Pairs(nn) :
            \A v \in 1..(nn - 1) :
                Cardinality({p \in F : p[1] = v - 1 \/ p[2] = v - 1})
                    >= Cardinality({p \in F : p[1] = v \/ p[2] = v})}}

\* what a miner may answer: every vertex subset in ascending order, and the
\* malformed answers: a repeated vertex, an id past the end, a negative id,
\* an unsorted pair
ResponsePool(nn) ==
    {BitsToList(S) : S \in SUBSET (0..(nn - 1))}
        \cup {<<0, 0>>, <<nn>>, <<-1>>, <<1, 0>>}

\* the response lists of up to MaxResponses answers, one order per multiset
\* of answers (non-increasing in the lexicographic order): get_scores
\* computes position i of every vector from response i and the multiset
ResponseLists(nn) ==
    {rs \in ListsUpTo(ResponsePool(nn), MaxResponses) :
        \A i \in 1..(Len(rs) - 1) : ~LexLess(rs[i], rs[i + 1])}

Difficulties == {RatInt(0), Rat(1, 2)}

InitScore ==
    /\ \E nn \in 0..MaxNodes :
          /\ graph \in Graphs(nn)
          /\ responses \in ResponseLists(nn)
    /\ difficulty \in Difficulties
    /\ scores = NoResult
    /\ locals = <<>>
    /\ self = NoValidator
    /\ calls = <<>>
    /\ n = 0
    /\ edges = <<>>
    /\ reorder = FALSE
    /\ enum_cap = <<>>
    /\ pc = "score"
    /\ adj = <<>>
    /\ invperm = <<>>
    /\ lb_sz = 0
    /\ lb_mask = {}
    /\ best_size = 0
    /\ best_bits = {}
    /\ nodes_expanded = 0
    /\ stack = <<>>
    /\ out = <<>>
    /\ complete1 = FALSE
    /\ hist = {}
    /\ result = NoResult
    /\ relabel = <<>>

\* get_scores(): optimality(), diversity(), then the rewards.  scores holds
\* what get_scores returned, and the locals val and size of optimality()
GetScores ==
    /\ scores = NoResult
    /\ pc = "score"
    /\ LET val == Val(graph, responses)
       IN scores' = [returned |-> GetScoresResult(graph, difficulty, responses),
                     val |-> val,
                     size |-> Size(val, responses)]
    /\ UNCHANGED <<graph, difficulty, responses>>
    /\ UNCHANGED notScorer

NextScore == GetScores

SpecScore == InitScore /\ [][NextScore]_vars

\* ---- reference notions for the scorer, on the graph as given

Scored == scores # NoResult

\* u and v are neighbours in the reference graph
GraphAdjacent(u, v) == v \in Range(graph.adjacency_list[u + 1])

GraphNodes == 0..(graph.number_of_nodes - 1)

\* the vertex list S has no repeated vertex and only ids of the graph
IsVertexList(S) ==
    /\ \A a, b \in 1..Len(S) : a # b => S[a] # S[b]
    /\ \A a \in 1..Len(S) : S[a] \in GraphNodes

\* every two elements of S are neighbours
IsGraphClique(S) ==
    \A a, b \in 1..Len(S) : a # b => GraphAdjacent(S[a], S[b])

\* some vertex outside S is adjacent to every element of S
IsExtendable(S) ==
    \E w \in GraphNodes \ Range(S) : \A a \in 1..Len(S) : GraphAdjacent(w, S[a])

\* the clique number of the reference graph
GraphCliqueNumber ==
    LET sizes == {Cardinality(Q) : Q \in
                     {T \in SUBSET GraphNodes :
                         \A u, v \in T : u # v => GraphAdjacent(u, v)}}
    IN CHOOSE m \in sizes : \A s \in sizes : s <= m

\* C14: is_valid_maximum_clique(S) returns true exactly when S is non-empty,
\* has no repeated vertex, lies in [0, number_of_nodes), is pairwise adjacent
\* and cannot be extended by a vertex outside S
C14_ValidIffNonExtendableClique ==
    Scored =>
        \A i \in 1..Len(responses) :
            (scores.val[i] = 1) <=>
                /\ Len(responses[i]) > 0
                /\ IsVertexList(responses[i])
                /\ IsGraphClique(responses[i])
                /\ ~IsExtendable(responses[i])

\* an accepted clique of two vertices beside a rejected list whose
\* consecutive elements are adjacent but which is no clique
C14_Witness ==
    /\ Scored
    /\ \E i, j \in 1..Len(responses) :
          /\ scores.val[i] = 1
          /\ Len(responses[i]) >= 2
          /\ scores.val[j] = 0
          /\ Len(responses[j]) >= 3
          /\ IsVertexList(responses[j])
          /\ \A a \in 1..(Len(responses[j]) - 1) :
                GraphAdjacent(responses[j][a], responses[j][a + 1])
          /\ ~IsGraphClique(responses[j])

\* C15 as stated: a response is accepted only if its size is the clique
\* number of the reference graph
C15_ValidOnlyIfMaximum ==
    Scored =>
        \A i \in 1..Len(responses) :
            scores.val[i] = 1 => Len(responses[i]) = GraphCliqueNumber

\* C15: is_valid_maximum_clique accepts only cliques that no outside vertex
\* extends, and it accepts every such clique, also one smaller than the
\* clique number
C15_ValidOnlyIfMaximal ==
    Scored =>
        \A i \in 1..Len(responses) :
            /\ scores.val[i] = 1 =>
                  IsGraphClique(responses[i]) /\ ~IsExtendable(responses[i])
            /\ ( /\ Len(responses[i]) > 0
                 /\ Len(responses[i]) < GraphCliqueNumber
                 /\ IsVertexList(responses[i])
                 /\ IsGraphClique(responses[i])
                 /\ ~IsExtendable(responses[i]) ) => scores.val[i] = 1

\* an accepted response smaller than the clique number, beside a clique
\* rejected because it can be extended
C15_Witness ==
    /\ Scored
    /\ \E i, j \in 1..Len(responses) :
          /\ scores.val[i] = 1
          /\ Len(responses[i]) < GraphCliqueNumber
          /\ scores.val[j] = 0
          /\ Len(responses[j]) > 0
          /\ IsVertexList(responses[j])
          /\ IsGraphClique(responses[j])
          /\ IsExtendable(responses[j])

\* get_scores returned its six vectors
ScoresReturned == Scored /\ "rewards" \in DOMAIN scores.returned

\* the number of valid responses
ValidCount == Cardinality({j \in 1..Len(responses) : scores.val[j] = 1})

\* C16 as stated: an invalid response has zero in all six vectors
C16_InvalidAllSixZero ==
    ScoresReturned =>
        \A i \in 1..Len(responses) :
            scores.val[i] = 0 =>
                \A f \in {"rel", "pr", "omega", "optimality", "diversity",
                          "rewards"} : scores.returned[f][i] = RealZero

\* C16: an invalid response has zero rel, raw omega, optimality, diversity
\* and reward; its pr is the fraction of valid responses in the list
C16_InvalidZeroButPr ==
    ScoresReturned =>
        \A i \in 1..Len(responses) :
            scores.val[i] = 0 =>
                /\ \A f \in {"rel", "omega", "optimality", "diversity",
                             "rewards"} : scores.returned[f][i] = RealZero
                /\ scores.returned.pr[i]
                       = RealOfRat(Rat(ValidCount, Len(responses)))

\* an invalid response scored in a list that has a valid one
C16_Witness ==
    /\ ScoresReturned
    /\ \E i, j \in 1..Len(responses) :
          /\ scores.val[i] = 0
          /\ scores.val[j] = 1
          /\ scores.returned.pr[i] # RealZero

K4 == LambdaGraphOf(4, Pairs(4))

ScenarioK4 ==
    /\ graph = K4
    /\ responses = <<<<0, 1, 2, 3>>, <<0, 1, 2, 3>>, <<0, 1>>>>
    /\ difficulty = Rat(1, 2)

\* the eight vectors of the K_4 scenario, with the given diversity and
\* rewards
ScenarioK4Scores(diversity, rewards) ==
    /\ scores.val = <<1, 1, 0>>
    /\ scores.size = <<4, 4, 0>>
    /\ scores.returned =
          [rel |-> <<RealOfRat(RatInt(1)), RealOfRat(RatInt(1)), RealZero>>,
           pr |-> <<RealZero, RealZero, RealOfRat(Rat(2, 3))>>,
           omega |-> <<RealOfRat(RatInt(1)), RealOfRat(RatInt(1)), RealZero>>,
           optimality |->
               <<RealOfRat(RatInt(1)), RealOfRat(RatInt(1)), RealZero>>,
           diversity |-> diversity,
           rewards |-> rewards]

\* C17 as stated: for K_4, responses [0,1,2,3], [0,1,2,3], [0,1] and
\* difficulty 1/2, vals are [1,1,0], sizes [4,4,0], rel [1,1,0], pr
\* [0,0,2/3], raw omega [1,1,0], optimality [1,1,0], diversity [1/2,1/2,0]
\* and rewards [2,2,0]
C17_ScenarioK4Values ==
    (Scored /\ ScenarioK4) =>
        ScenarioK4Scores(
            <<RealOfRat(Rat(1, 2)), RealOfRat(Rat(1, 2)), RealZero>>,
            <<RealOfRat(RatInt(2)), RealOfRat(RatInt(2)), RealZero>>)

\* C17: in that scenario vals, sizes, rel, pr, raw omega and optimality are
\* as stated, and diversity, normalised by its maximum 1/2, is [1,1,0], so
\* the rewards are [5/2,5/2,0]
C17_ScenarioK4Normalised ==
    (Scored /\ ScenarioK4) =>
        ScenarioK4Scores(
            <<RealOfRat(RatInt(1)), RealOfRat(RatInt(1)), RealZero>>,
            <<RealOfRat(Rat(5, 2)), RealOfRat(Rat(5, 2)), RealZero>>)

C17_Witness == Scored /\ ScenarioK4

\* response w is valid and strictly larger than every other valid response
StrictlyLargest(w) ==
    /\ scores.val[w] = 1
    /\ \A j \in 1..Len(responses) :
          (j # w /\ scores.val[j] = 1) => scores.size[j] < scores.size[w]

\* C18: with difficulty >= 0, a valid response strictly larger than every
\* other valid response has a reward strictly greater than every other
\* response's
C18_StrictlyLargestWins ==
    (ScoresReturned /\ RatLeq(RatInt(0), difficulty)) =>
        \A w \in 1..Len(responses) :
            StrictlyLargest(w) =>
                \A j \in 1..Len(responses) :
                    j # w => RealLess(scores.returned.rewards[j],
                                      scores.returned.rewards[w])

\* the winner beside a smaller valid response and an invalid one
C18_Witness ==
    /\ ScoresReturned
    /\ \E w, j, l \in 1..Len(responses) :
          /\ StrictlyLargest(w)
          /\ j # w
          /\ scores.val[j] = 1
          /\ scores.val[l] = 0

SixVectors == {"rel", "pr", "omega", "optimality", "diversity", "rewards"}

\* C19: get_scores raises nothing and returns six vectors of length k, none
\* holding the outcome of a division by zero; rel[i] > 0 for a valid
\* response; for k = 0 the six vectors are empty
C19_GetScoresNeverFails ==
    Scored =>
        /\ DOMAIN scores.returned = SixVectors
        /\ \A f \in SixVectors :
              /\ Len(scores.returned[f]) = Len(responses)
              /\ \A i \in 1..Len(responses) : ~RealIsNaN(scores.returned[f][i])
        /\ \A i \in 1..Len(responses) :
              scores.val[i] = 1 => RealLess(RealZero, scores.returned.rel[i])

\* a full list of invalid answers (empty, negative id, id past the end):
\* max_size is 0 and the guards before the divisions are taken
C19_Witness ==
    /\ Scored
    /\ Len(responses) = MaxResponses
    /\ \A i \in 1..Len(responses) : scores.val[i] = 0
    /\ \E i, j, l \in 1..Len(responses) :
          /\ responses[i] = <<>>
          /\ responses[j] = <<-1>>
          /\ responses[l] = <<graph.number_of_nodes>>

\* the empty response list, scored
C19_WitnessEmpty == Scored /\ Len(responses) = 0

\* ================================================ solver and scorer together

\* the input graph of solve_max_clique_all as the scorer's reference graph
InputGraph == LambdaGraphOf(n, Range(edges))

C27_OmegaNeverOverestimates ==
    (Returned /\ n >= 1) => result.omega <= CliqueNumber

\* an aborted max-size phase that returns a positive omega
C27_Witness ==
    /\ Returned
    /\ "timeout1" \in hist
    /\ result.omega >= 1
    /\ result.omega <= CliqueNumber

\* ------------------------------------------------ the best-so-far record

\* solve_max_clique_all on graphs of up to MaxSearchN vertices, without a cap
InitSearch ==
    /\ n \in 1..MaxSearchN
    /\ edges \in {PairList(S) : S \in SUBSET Pairs(n)}
    /\ reorder \in BOOLEAN
    /\ enum_cap = <<>>
    /\ pc = "call"
    /\ adj = <<>>
    /\ invperm = <<>>
    /\ lb_sz = 0
    /\ lb_mask = {}
    /\ best_size = 0
    /\ best_bits = {}
    /\ nodes_expanded = 0
    /\ stack = <<>>
    /\ out = <<>>
    /\ complete1 = FALSE
    /\ hist = {}
    /\ result = NoResult
    /\ relabel = <<>>
    /\ graph = NoGraph
    /\ difficulty = <<0, 1>>
    /\ responses = <<>>
    /\ scores = NoResult
    /\ locals = <<>>
    /\ self = NoValidator
    /\ calls = <<>>

SpecSearch == InitSearch /\ [][Next]_vars

\* bits is a clique of the searched (possibly reordered) graph
IsSearchedClique(bits) == \A u, v \in bits : u # v => v \in adj[u]

\* a recorded witness is a clique of the searched graph with best_size
\* vertices
BestIsClique ==
    best_bits # {} =>
        IsSearchedClique(best_bits) /\ Cardinality(best_bits) = best_size

\* a step of max_size keeps best_size or raises it, and touches best_bits
\* only when it raises best_size
BestStep ==
    pc = "max" =>
        /\ best_size' >= best_size
        /\ best_bits' # best_bits => best_size' > best_size

\* the abort of max_size and everything after it leave the record as it is,
\* and the record is what solve_max_clique_all reports
BestKept ==
    /\ (pc = "max" /\ pc' # "max") =>
          best_size' = best_size /\ best_bits' = best_bits
    /\ pc \in {"between", "enum"} =>
          best_size' = best_size /\ best_bits' = best_bits
    /\ (pc' = "done" /\ "omega" \in DOMAIN result') => result'.omega = best_size

\* C24: during max_size best_size never decreases and best_bits changes only
\* with a strict increase of best_size; an abort at any recursion entry
\* returns the last recorded best_size and best_bits unchanged; a non-empty
\* recorded witness is a clique of the searched graph with best_size vertices
C24_BestSoFarPreserved ==
    /\ []BestIsClique
    /\ [][BestStep /\ BestKept]_vars

\* max_size was aborted after the search had recorded an improvement
C24_Witness ==
    /\ pc = "between"
    /\ "timeout1" \in hist
    /\ best_bits # {}
    /\ best_size > InitLb(lb_sz)

\* ============================================= _color_sort called on its own

\* a graph on up to MaxColorN vertices and a candidate set P of its vertices
InitColor ==
    /\ n \in 0..MaxColorN
    /\ edges \in {PairList(S) : S \in SUBSET Pairs(n)}
    /\ adj = FromEdges(n, edges).adj
    /\ locals \in {[P |-> P] : P \in SUBSET (0..(n - 1))}
    /\ pc = "color_sort"
    /\ reorder = FALSE
    /\ enum_cap = <<>>
    /\ invperm = <<>>
    /\ lb_sz = 0
    /\ lb_mask = {}
    /\ best_size = 0
    /\ best_bits = {}
    /\ nodes_expanded = 0
    /\ stack = <<>>
    /\ out = <<>>
    /\ complete1 = FALSE
    /\ hist = {}
    /\ result = NoResult
    /\ relabel = <<>>
    /\ graph = NoGraph
    /\ difficulty = <<0, 1>>
    /\ responses = <<>>
    /\ scores = NoResult
    /\ self = NoValidator
    /\ calls = <<>>

\* order, colors = _color_sort(P, adj)
ColorSortCall ==
    /\ pc = "color_sort"
    /\ result' = ColorSort(locals.P, adj)
    /\ pc' = "done"
    /\ UNCHANGED <<n, edges, reorder, enum_cap, adj, invperm, lb_sz, lb_mask,
                   best_size, best_bits, nodes_expanded, stack, out,
                   complete1, hist>>
    /\ UNCHANGED notSolver

NextColor == ColorSortCall

SpecColor == InitColor /\ [][NextColor]_vars

Coloured == pc = "done" /\ "colors" \in DOMAIN result

\* the vertices at positions lo..hi of the returned order
PositionsOf(lo, hi) == {result.order[k] : k \in lo..hi}

\* the sizes of the cliques of the graph inside the vertex set S
CliqueSizesIn(S) ==
    {Cardinality(Q) : Q \in {T \in SUBSET S : \A u, v \in T : u # v => v \in adj[u]}}

\* C21 as stated: colors[i] bounds the cliques of P among the vertices at
\* positions >= i of order
C21_ColorBoundsLaterPositions ==
    Coloured =>
        \A i \in 1..Len(result.order) :
            \A s \in CliqueSizesIn(PositionsOf(i, Len(result.order))) :
                s <= result.colors[i]

\* C21: colors[i] bounds the cliques of P among the vertices at positions
\* <= i of order
C21_ColorBoundsEarlierPositions ==
    Coloured =>
        \A i \in 1..Len(result.order) :
            \A s \in CliqueSizesIn(PositionsOf(1, i)) : s <= result.colors[i]

\* a position of colour 2 or more, not the last, whose bound is attained by
\* a clique on the positions up to it
C21_Witness ==
    /\ Coloured
    /\ \E i \in 1..(Len(result.order) - 1) :
          /\ result.colors[i] >= 2
          /\ result.colors[i] \in CliqueSizesIn(PositionsOf(1, i))

\* C28: order lists every vertex of P exactly once; colors is non-decreasing
\* and starts at 1; vertices of equal colour are pairwise non-adjacent;
\* colors[i] bounds the cliques on positions <= i, so that a break of
\* _expand_max at position i discards no clique that would exceed best_size
\* and a break of _expand_enum discards no clique that would reach target
C28_ColorSortSupportsBreak ==
    Coloured =>
        LET order == result.order
            colors == result.colors
            k == Len(order)
        IN /\ Len(colors) = k
           /\ Range(order) = locals.P
           /\ \A i, j \in 1..k : i # j => order[i] # order[j]
           /\ k > 0 => colors[1] = 1
           /\ \A i \in 1..(k - 1) : colors[i] <= colors[i + 1]
           /\ \A i, j \in 1..k :
                 (i # j /\ colors[i] = colors[j]) => order[j] \notin adj[order[i]]
           /\ \A i \in 1..k :
                 \A s \in CliqueSizesIn(PositionsOf(1, i)) :
                     /\ s <= colors[i]
                     /\ \A size, best \in 0..n :
                           /\ MaxBoundCut(size, colors[i], best)
                                 => size + s <= best
                           /\ EnumBoundCut(size, colors[i], best)
                                 => size + s < best

\* three or more vertices, a colour class of two, and a second colour
C28_Witness ==
    /\ Coloured
    /\ Len(result.order) >= 3
    /\ \E i, j \in 1..Len(result.order) :
          /\ i # j
          /\ result.colors[i] = result.colors[j]
    /\ \E i \in 1..Len(result.order) : result.colors[i] >= 2

\* ================================= reorder_by_degeneracy, one step at a time

\* a graph on up to MaxDegenN vertices, at the head of the removal loop
InitDegen ==
    /\ n \in 0..MaxDegenN
    /\ edges \in {PairList(S) : S \in SUBSET Pairs(n)}
    /\ adj = FromEdges(n, edges).adj
    /\ locals = [remaining |-> 0..(n - 1), deg |-> Degrees(n, adj),
                 order |-> <<>>]
    /\ pc = "degeneracy"
    /\ reorder = TRUE
    /\ enum_cap = <<>>
    /\ invperm = <<>>
    /\ lb_sz = 0
    /\ lb_mask = {}
    /\ best_size = 0
    /\ best_bits = {}
    /\ nodes_expanded = 0
    /\ stack = <<>>
    /\ out = <<>>
    /\ complete1 = FALSE
    /\ hist = {}
    /\ result = NoResult
    /\ relabel = <<>>
    /\ graph = NoGraph
    /\ difficulty = <<0, 1>>
    /\ responses = <<>>
    /\ scores = NoResult
    /\ self = NoValidator
    /\ calls = <<>>

\* one iteration of "while remaining"
DegeneracyStep ==
    /\ pc = "degeneracy"
    /\ locals.remaining # {}
    /\ locals' = RemoveMin(adj, locals.remaining, locals.deg, locals.order)
    /\ UNCHANGED <<n, edges, reorder, enum_cap, pc, adj, invperm, lb_sz,
                   lb_mask, best_size, best_bits, nodes_expanded, stack, out,
                   complete1, hist, result>>
    /\ UNCHANGED <<relabel, graph, difficulty, responses, scores, self, calls>>

\* the loop has ended: perm, new_adj and the return
DegeneracyReturn ==
    /\ pc = "degeneracy"
    /\ locals.remaining = {}
    /\ result' = PermutedGraph(n, adj, locals.order)
    /\ pc' = "done"
    /\ UNCHANGED <<n, edges, reorder, enum_cap, adj, invperm, lb_sz, lb_mask,
                   best_size, best_bits, nodes_expanded, stack, out,
                   complete1, hist>>
    /\ UNCHANGED notSolver

NextDegen == DegeneracyStep \/ DegeneracyReturn

SpecDegen == InitDegen /\ [][NextDegen]_vars

Reordered == pc = "done" /\ "perm" \in DOMAIN result

\* the stepwise loop returns what ReorderByDegeneracy computes in one go
StepsAgreeWithReorder == Reordered => result = ReorderByDegeneracy(n, adj)

\* C22: perm and invperm are mutually inverse bijections over [0,n); bit
\* perm[v] is set in new adj[perm[u]] exactly when bit v is set in old
\* adj[u]; the new graph is symmetric and has no self bit
C22_ReorderIsIsomorphism ==
    Reordered =>
        LET V == 0..(n - 1)
        IN /\ DOMAIN result.perm = V /\ DOMAIN result.invperm = V
           /\ \A v \in V : result.perm[v] \in V /\ result.invperm[v] \in V
           /\ \A i \in V : result.perm[result.invperm[i]] = i
           /\ \A v \in V : result.invperm[result.perm[v]] = v
           /\ \A u, v \in V :
                 result.perm[v] \in result.adj[result.perm[u]] <=> v \in adj[u]
           /\ \A u, v \in V : v \in result.adj[u] <=> u \in result.adj[v]
           /\ \A v \in V : v \notin result.adj[v]

\* a graph with an edge whose vertices are moved by perm
C22_Witness ==
    /\ Reordered
    /\ \E u, v \in 0..(n - 1) :
          /\ v \in adj[u]
          /\ result.perm[u] # u
          /\ result.perm[v] # v

\* the number of neighbours of w that are still remaining
RemainingDegree(w) == Cardinality(adj[w] \cap locals.remaining)

\* deg agrees with the remaining graph, and the result lists the removals
DegreesCurrent ==
    /\ pc = "degeneracy" =>
          \A w \in locals.remaining : locals.deg[w] = RemainingDegree(w)
    /\ Reordered =>
          \A i \in 0..(n - 1) : result.invperm[i] = locals.order[i + 1]

\* a step removes a remaining vertex of least remaining degree, the lowest
\* id on ties, and appends it to the order
RemovesLeast ==
    (pc = "degeneracy" /\ locals.remaining # {}) =>
        \E v \in locals.remaining :
            /\ locals'.remaining = locals.remaining \ {v}
            /\ locals'.order = Append(locals.order, v)
            /\ \A w \in locals.remaining :
                  \/ RemainingDegree(v) < RemainingDegree(w)
                  \/ RemainingDegree(v) = RemainingDegree(w) /\ v <= w

\* C23: at every step deg[w] of a remaining vertex is the number of its
\* remaining neighbours; the vertex removed next is a remaining vertex of
\* least such degree, the lowest id on ties; invperm is the removal order
C23_DegeneracyLoopInvariant ==
    /\ []DegreesCurrent
    /\ [][RemovesLeast]_vars

\* part of the way through the loop, degrees already decremented and a tie
\* for the next removal
C23_Witness ==
    /\ pc = "degeneracy"
    /\ Len(locals.order) >= 1
    /\ \E w \in locals.remaining : locals.deg[w] < Cardinality(adj[w])
    /\ \E v, w \in locals.remaining :
          /\ v # w
          /\ \A x \in locals.remaining :
                locals.deg[v] <= locals.deg[x] /\ locals.deg[w] <= locals.deg[x]

\* ================================================= BaseValidatorNeuron

\* hotkeys seen on the chain
Hotkeys == {"a", "b"}

\* a metagraph: one hotkey per uid
Metagraphs == UNION {[1..k -> Hotkeys] : k \in 1..MaxUids}

\* config.neuron.ema_alpha
Alphas == {Rat(1, 2), RatInt(1)}

\* the entries of a rewards vector
RewardValues == {NaN, RatInt(1)}

RewardVectors == UNION {[1..k -> RewardValues] : k \in 0..MaxUids}

\* duplicate-free uid lists over the uids the validator holds
UidLists(k) ==
    {us \in UNION {[1..m -> 0..(k - 1)] : m \in 0..k} :
        \A i, j \in 1..Len(us) : us[i] = us[j] => i = j}

\* np.zeros(k) of scores, and of step counts
ZeroScores(k) == [i \in 1..k |-> RatInt(0)]

ZeroCounts(k) == [i \in 1..k |-> 0]

\* int32 addition of one
Int32Inc(x) == IF x = 2147483647 THEN -2147483647 - 1 ELSE x + 1

\* np.power(base, k) for k >= 0
RECURSIVE RatPow(_, _)
RatPow(base, k) == IF k <= 0 THEN RatInt(1) ELSE RatMul(base, RatPow(base, k - 1))

\* what save_state of an earlier run stored for one uid: never scored, or
\* scored once with reward 1
SavedEntries(alpha) == {[count |-> 0, ema |-> RatInt(0)], [count |-> 1, ema |-> alpha]}

\* the construction: a copy of the metagraph's hotkeys and three zero arrays,
\* then load_state, which replaces hotkeys, ema_scores and ema_step_count by
\* the saved ones when a saved state exists (scores is not saved)
Constructed(mg, alpha, saved) ==
    IF saved = <<>>
    THEN [hotkeys |-> mg, ema_scores |-> ZeroScores(Len(mg)),
          scores |-> ZeroScores(Len(mg)), ema_step_count |-> ZeroCounts(Len(mg)),
          metagraph |-> mg, alpha |-> alpha]
    ELSE [hotkeys |-> [i \in 1..Len(saved) |-> saved[i].hotkey],
          ema_scores |-> [i \in 1..Len(saved) |-> saved[i].ema],
          scores |-> ZeroScores(Len(mg)),
          ema_step_count |-> [i \in 1..Len(saved) |-> saved[i].count],
          metagraph |-> mg, alpha |-> alpha]

\* the states an earlier run saved, for at most as many uids as mg has
SavedStates(mg, alpha) ==
    UNION {[1..k -> {[hotkey |-> h, count |-> e.count, ema |-> e.ema] :
                        h \in Hotkeys, e \in SavedEntries(alpha)}] :
           k \in 1..Len(mg)}

InitValidator ==
    /\ \E mg \in Metagraphs, alpha \in Alphas :
          \E saved \in {<<>>} \cup SavedStates(mg, alpha) :
              /\ self = Constructed(mg, alpha, saved)
              /\ calls = [count |-> self.ema_step_count, last |-> [op |-> "init"]]
    /\ pc = "validator"
    /\ n = 0
    /\ edges = <<>>
    /\ reorder = FALSE
    /\ enum_cap = <<>>
    /\ adj = <<>>
    /\ invperm = <<>>
    /\ lb_sz = 0
    /\ lb_mask = {}
    /\ best_size = 0
    /\ best_bits = {}
    /\ nodes_expanded = 0
    /\ stack = <<>>
    /\ out = <<>>
    /\ complete1 = FALSE
    /\ hist = {}
    /\ result = NoResult
    /\ relabel = <<>>
    /\ graph = NoGraph
    /\ difficulty = <<0, 1>>
    /\ responses = <<>>
    /\ scores = NoResult
    /\ locals = <<>>

\* mutant: every uid is zeroed
ZeroEvery(arr, hotkeys, mg, zero) == [i \in 1..Len(arr) |-> zero]

\* the loop over enumerate(self.hotkeys): arr[uid] = 0 where the hotkey changed
ZeroReplaced(arr, hotkeys, mg, zero) ==
    [i \in 1..Len(arr) |->
        IF i <= Len(hotkeys) /\ hotkeys[i] # mg[i] THEN zero ELSE arr[i]]

\* new = np.zeros(metagraph.n); new[:min_len] = arr[:min_len]
Grown(arr, hotkeys, mg, zero) ==
    LET min_len == IF Len(hotkeys) <= Len(arr) THEN Len(hotkeys) ELSE Len(arr)
    IN [i \in 1..Len(mg) |-> IF i <= min_len THEN arr[i] ELSE zero]

\* one of the three arrays after resync_metagraph
Resynced(arr, hotkeys, mg, zero) ==
    LET zeroed == ZeroReplaced(arr, hotkeys, mg, zero)
    IN IF Len(hotkeys) < Len(mg) THEN Grown(zeroed, hotkeys, mg, zero) ELSE zeroed

\* the per-uid number of counted update_scores calls after a resync, by the
\* words of the claim: a replaced hotkey starts again at 0, a new uid at 0
CountedAfterResync(count, hotkeys, mg) ==
    [i \in 1..(IF Len(hotkeys) < Len(mg) THEN Len(mg) ELSE Len(count)) |->
        IF i <= Len(hotkeys) /\ i <= Len(count) /\ hotkeys[i] = mg[i]
        THEN count[i] ELSE 0]

\* resync_metagraph, the chain now showing mg (a metagraph never shrinks)
ResyncMetagraph(mg) ==
    /\ pc = "validator"
    /\ Len(mg) >= Len(self.metagraph)
    /\ self' = [self EXCEPT
                  !.metagraph = mg,
                  !.ema_scores = Resynced(self.ema_scores, self.hotkeys, mg, RatInt(0)),
                  !.scores = Resynced(self.scores, self.hotkeys, mg, RatInt(0)),
                  !.ema_step_count = Resynced(self.ema_step_count, self.hotkeys, mg, 0),
                  !.hotkeys = mg]
    /\ calls' = [count |-> CountedAfterResync(calls.count, self.hotkeys, mg),
                 last |-> [op |-> "resync_metagraph", metagraph |-> mg,
                           hotkeys |-> self.hotkeys, counted |-> calls.count]]
    /\ UNCHANGED <<n, edges, reorder, enum_cap, pc, adj, invperm, lb_sz,
                   lb_mask, best_size, best_bits, nodes_expanded, stack, out,
                   complete1, hist, result>>
    /\ UNCHANGED <<relabel, graph, difficulty, responses, scores, locals>>

\* np.nan_to_num(rewards, nan=0)
NanToNum(rewards) ==
    [k \in 1..Len(rewards) |-> IF IsNaN(rewards[k]) THEN RatInt(0) ELSE rewards[k]]

\* mutant: every uid takes a step
StepCountsOfAll(count, uids) == [i \in 1..Len(count) |-> Int32Inc(count[i])]

\* self.ema_step_count[uids_array] += 1
StepCounts(count, uids) ==
    [i \in 1..Len(count) |->
        IF (i - 1) \in Range(uids) THEN Int32Inc(count[i]) ELSE count[i]]

\* self.ema_scores[uids_array] = alpha * rewards + (1 - alpha) * ...
EmaScores(ema, alpha, rewards, uids) ==
    [i \in 1..Len(ema) |->
        IF (i - 1) \in Range(uids)
        THEN LET k == CHOOSE k \in 1..Len(uids) :
                          /\ uids[k] = i - 1
                          /\ \A m \in 1..Len(uids) : uids[m] = i - 1 => m <= k
             IN RatAdd(RatMul(alpha, rewards[k]),
                       RatMul(RatSub(RatInt(1), alpha), ema[i]))
        ELSE ema[i]]

\* correction = 1 - (1 - alpha) ** ema_step_count
Correction(alpha, count) ==
    [i \in 1..Len(count) |->
        RatSub(RatInt(1), RatPow(RatSub(RatInt(1), alpha), count[i]))]

\* np.divide(ema_scores, correction, out=zeros, where=correction != 0)
Debiased(ema, correction) ==
    [i \in 1..Len(ema) |->
        IF correction[i] # RatInt(0) THEN RatDiv(ema[i], correction[i])
        ELSE RatInt(0)]

\* how update_scores ends for these arguments
UpdateOutcome(rewards, uids) ==
    IF Len(rewards) = 0 \/ Len(uids) = 0 THEN "return"
    ELSE IF Len(rewards) # Len(uids) THEN "ValueError"
    ELSE "updated"

\* the validator after update_scores(rewards, uids)
Updated(v, rewards, uids) ==
    IF UpdateOutcome(rewards, uids) # "updated" THEN v
    ELSE LET count == StepCounts(v.ema_step_count, uids)
             ema == EmaScores(v.ema_scores, v.alpha, NanToNum(rewards), uids)
         IN [v EXCEPT !.ema_step_count = count,
                      !.ema_scores = ema,
                      !.scores = Debiased(ema, Correction(v.alpha, count))]

\* the per-uid number of counted calls after an update_scores call, by the
\* words of the claim: non-empty, size-matching, and uid among the uids
CountedAfterUpdate(count, rewards, uids) ==
    [i \in 1..Len(count) |->
        IF /\ Len(rewards) > 0
           /\ Len(rewards) = Len(uids)
           /\ (i - 1) \in Range(uids)
        THEN count[i] + 1 ELSE count[i]]

\* update_scores(rewards, uids), the uids among those of self.hotkeys
UpdateScores(rewards, uids) ==
    /\ pc = "validator"
    /\ \A u \in Range(uids) : self.ema_step_count[u + 1] < MaxSteps
    /\ self' = Updated(self, rewards, uids)
    /\ calls' = [count |-> CountedAfterUpdate(calls.count, rewards, uids),
                 last |-> [op |-> "update_scores", rewards |-> rewards,
                           uids |-> uids,
                           outcome |-> UpdateOutcome(rewards, uids)]]
    /\ UNCHANGED <<n, edges, reorder, enum_cap, pc, adj, invperm, lb_sz,
                   lb_mask, best_size, best_bits, nodes_expanded, stack, out,
                   complete1, hist, result>>
    /\ UNCHANGED <<relabel, graph, difficulty, responses, scores, locals>>

NextValidator ==
    \/ \E mg \in Metagraphs : ResyncMetagraph(mg)
    \/ \E rewards \in RewardVectors, uids \in UidLists(Len(self.hotkeys)) :
          UpdateScores(rewards, uids)

SpecValidator == InitValidator /\ [][NextValidator]_vars

\* the step was a resync_metagraph call
ResyncStep == calls' # calls /\ calls'.last.op = "resync_metagraph"

\* what the claim says of one resync_metagraph call
ResyncFrame ==
    ResyncStep =>
        LET mg == calls'.last.metagraph
            old == self.hotkeys
            Three == {"ema_scores", "scores", "ema_step_count"}
            zero(f) == IF f = "ema_step_count" THEN 0 ELSE RatInt(0)
        IN /\ \A f \in Three : \A i \in 1..Len(old) :
                 self'[f][i] = IF old[i] # mg[i] THEN zero(f) ELSE self[f][i]
           /\ Len(mg) > Len(old) =>
                 \A f \in Three :
                     /\ Len(self'[f]) = Len(mg)
                     /\ \A i \in (Len(old) + 1)..Len(mg) : self'[f][i] = zero(f)
           /\ self'.hotkeys = mg

\* C25: resync_metagraph zeroes ema_scores, scores and ema_step_count of
\* exactly the uids whose stored hotkey differs from the metagraph's, keeps
\* them for every other existing uid, extends the arrays with zeros when the
\* metagraph has grown, and ends with self.hotkeys equal to the metagraph's
C25_ResyncZeroesExactlyReplaced == [][ResyncFrame]_vars

\* after a resync that grew the metagraph and replaced the hotkey of a uid
\* that had been scored
C25_Witness ==
    /\ calls.last.op = "resync_metagraph"
    /\ Len(calls.last.metagraph) > Len(calls.last.hotkeys)
    /\ \E i \in 1..Len(calls.last.hotkeys) :
          /\ calls.last.hotkeys[i] # calls.last.metagraph[i]
          /\ calls.last.counted[i] > 0
          /\ self.ema_step_count[i] = 0
          /\ self.scores[i] = RatInt(0)

\* ema_step_count is the number of counted calls, and an unscored uid has
\* score 0
CountsCalls ==
    pc = "validator" =>
        /\ self.ema_step_count = calls.count
        /\ \A i \in 1..Len(self.ema_step_count) :
              (i <= Len(self.scores) /\ self.ema_step_count[i] = 0)
                  => self.scores[i] = RatInt(0)

\* a call with empty rewards or uids, or with sizes that differ (which
\* raises ValueError), changes none of the three arrays
IgnoredCallFrame ==
    (calls' # calls /\ calls'.last.op = "update_scores") =>
        LET rewards == calls'.last.rewards
            uids == calls'.last.uids
        IN /\ (Len(rewards) = 0 \/ Len(uids) = 0 \/ Len(rewards) # Len(uids)) =>
                 /\ self'.ema_scores = self.ema_scores
                 /\ self'.scores = self.scores
                 /\ self'.ema_step_count = self.ema_step_count
           /\ (Len(rewards) > 0 /\ Len(uids) > 0 /\ Len(rewards) # Len(uids)) =>
                 calls'.last.outcome = "ValueError"

\* C29: after any update_scores calls (duplicate-free uids) and
\* resync_metagraph calls, ema_step_count[uid] is the number of
\* update_scores calls with non-empty, size-matching rewards that included
\* uid since its hotkey was last replaced; scores[uid] is 0 whenever
\* ema_step_count[uid] is 0; a call with empty rewards or uids, or with
\* mismatching sizes, leaves the three arrays unchanged
C29_StepCountCountsCalls ==
    /\ []CountsCalls
    /\ [][IgnoredCallFrame]_vars

\* a uid scored twice beside a uid never scored, after a call that raised
C29_Witness ==
    /\ calls.last.op = "update_scores"
    /\ calls.last.outcome = "ValueError"
    /\ \E i, j \in 1..Len(self.ema_step_count) :
          /\ self.ema_step_count[i] = 2
          /\ self.scores[i] # RatInt(0)
          /\ self.ema_step_count[j] = 0

\* ============================================ the normalised score vectors

RealOne == RealOfRat(RatInt(1))

InUnit(r) == RealLeq(RealZero, r) /\ RealLeq(r, RealOne)

\* the largest size among the valid responses
LargestValidSize ==
    CHOOSE m \in {scores.size[j] : j \in {j \in 1..Len(responses) : scores.val[j] = 1}} :
        \A j \in 1..Len(responses) : scores.val[j] = 1 => scores.size[j] <= m

\* C30: whenever at least one response is valid, every valid response of
\* the largest valid size has optimality 1, at least one valid response has
\* diversity 1, every optimality and diversity value lies in [0,1], and for
\* difficulty d >= 0 every reward lies in [0, 2 + d]
C30_NormalisedToOne ==
    (ScoresReturned /\ ValidCount >= 1) =>
        /\ \A i \in 1..Len(responses) :
              (scores.val[i] = 1 /\ scores.size[i] = LargestValidSize)
                  => scores.returned.optimality[i] = RealOne
        /\ \E i \in 1..Len(responses) :
              scores.val[i] = 1 /\ scores.returned.diversity[i] = RealOne
        /\ \A i \in 1..Len(responses) :
              /\ InUnit(scores.returned.optimality[i])
              /\ InUnit(scores.returned.diversity[i])
        /\ RatLeq(RatInt(0), difficulty) =>
              \A i \in 1..Len(responses) :
                  /\ RealLeq(RealZero, scores.returned.rewards[i])
                  /\ RealLeq(scores.returned.rewards[i],
                             RealOfRat(RatAdd(RatInt(2), difficulty)))

\* a valid response below the largest size, with an optimality strictly
\* inside (0,1), and a valid response given twice, with diversity 1/2,
\* under a positive difficulty
C30_Witness ==
    /\ ScoresReturned
    /\ RatLess(RatInt(0), difficulty)
    /\ \E i \in 1..Len(responses) :
          /\ scores.val[i] = 1
          /\ ~IsRational(scores.returned.optimality[i])
    /\ \E i \in 1..Len(responses) :
          /\ scores.val[i] = 1
          /\ scores.returned.diversity[i] = RealOfRat(Rat(1, 2))

====
